---- MODULE Spec2Model ----
(***************************************************************************)
(* Verification model of crunchy-cli-core/src/utils/download.rs.           *)
(*                                                                         *)
(* Part I  - Downloader::download_segments: K worker tasks fetch the       *)
(*           segments of one stream and push (index, bytes) on an          *)
(*           unbounded channel; the caller is the single writer, which     *)
(*           re-orders the messages through a BTreeMap.                    *)
(* Part II - Downloader::download: audio fetch, variant alignment, root    *)
(*           selection, merge, video and subtitle fetch, chapters and the  *)
(*           multiplexer argument vector; write_ffmpeg_chapters.           *)
(***************************************************************************)
EXTENDS Integers, Sequences, FiniteSets, TLC

\* ---------------------------------------------------------------- bounds
MaxSegments == 3
MaxThreads == 2
MaxFaulty == 2
MaxVariants == 3
MaxPlanVariants == 2
MaxPresetLen == 4
MaxEvents == 2
\* the calls of download_font made in one run of the model
MaxFontCalls == 3
\* the variants of a run of the sort on its own
MaxSortVariants == 3
\* the lines of a subtitle file given to fix_subtitles
MaxLines == 3
\* the variants of a run of download() in which operations can fail
MaxRunVariants == 2
\* the lines the multiplexer writes to the progress FIFO
MaxFifoLines == 2
\* the seasons of one season number added to a SingleFormatCollection
MaxSeasons == 12
\* the further calls of add_single_formats
MaxAdds == 2

\* ------------------------------------------------------ program constants
MaxRetries == 5
AttemptsCap == MaxRetries + 2

VARIABLES
    \* ---- download_segments: inputs
    total_segments,     \* segments.len()
    download_threads,   \* self.download_threads
    faulty,             \* segments whose request or body read may fail
    \* ---- download_segments: worker tasks (index num in 0..cpus-1)
    wpc,                \* position of each task
    wi,                 \* loop variable i of `thread_segments.into_iter().enumerate()`
    retry_count,        \* retry_count of the segment being fetched
    werr,               \* segment index named by the task's error, NoErr if none
    fail_log,           \* the tasks that ended with an error, in the order they failed (observer)
    attempts,           \* requests issued so far, per segment (observer)
    count,              \* the shared Mutex<i32> counter
    \* ---- download_segments: channel, join set and writer
    channel,            \* unbounded mpsc channel, messages <<pos, bytes>>
    join_set,           \* finished tasks not yet returned by join_next()
    pc,                 \* position of the writer: "recv", "join", "done"
    data_pos,
    buf,                \* BTreeMap<i32, Vec<u8>>
    written,            \* the bytes handed to writer.write_all so far
    result,             \* return value of download_segments
    \* ---- download: inputs
    added,                  \* the formats passed to add_format, in order
    merge_sync_tolerance,   \* Option<u32>: <<>> or <<t>>
    sync_result,            \* what sync_audios returns: <<>> or <<offsets>>
    overflow_checks,        \* build profile: arithmetic overflow panics or wraps
    force_hardsub,          \* self.force_hardsub
    dst_extension,          \* dst.extension()
    default_subtitle,       \* Option<Locale>: <<>> or <<locale>>
    no_closed_caption,      \* self.no_closed_caption
    ffmpeg_preset,          \* the output arguments of self.ffmpeg_preset
    audio_sort,             \* Option<Vec<Locale>>: <<>> or <<list>>
    download_fonts,         \* self.download_fonts
    dst_kind,               \* what dst is: a "file", "stdout" (`-`) or a "special" file
    disk,                   \* what statvfs and current_dir answer during the probe
    fails,                  \* the fallible operations that return a hard error
    \* ---- write_ffmpeg_chapters: arguments of a call on its own
    video_len,
    events,
    \* ---- download_font: the font cache directory and the calls made so far
    font_cache,             \* the files of cache_dir("fonts"): file name -> bytes
    font_log,               \* one record per call of download_font (observer)
    \* ---- fix_subtitles: arguments and result of a call on its own
    raw,                    \* the lines of the subtitle file
    max_length,             \* the TimeDelta the times are clamped to
    fixed,                  \* the lines fix_subtitles leaves in raw
    \* ---- the run of the multiplexer (the end of download) and ffmpeg_progress
    wait_outcome,           \* what ffmpeg.wait_with_output() finds
    fifo,                   \* the lines of the FIFO that were not read yet
    eof_comes,              \* the FIFO reports EOF behind its lines, or stalls
    total_frames,           \* max_frames, the expected total
    m_pc,                   \* position of download() in the run of the multiplexer
    child_awaited,          \* the child process was waited for (observer)
    token,                  \* the CancellationToken is cancelled
    p_pc,                   \* position of the progress task, or what it returned
    frame,                  \* the last frame number read
    bar,                    \* position of the progress bar, <<>> if there is no bar
    m_ret,                  \* what download() returns, <<>> before
    \* ---- download: state
    d_pc,                   \* position inside download()
    formats,                \* self.formats
    raw_audios,
    root_format_idx,        \* <<>> until a root was selected
    audio_offsets,
    subtitle_offsets,
    video_offset,           \* Option<TimeDelta>
    warnings,               \* the warn!() messages emitted so far
    audios,                 \* Vec<FFmpegAudioMeta>
    videos,                 \* Vec<FFmpegVideoMeta>
    subtitles,              \* Vec<FFmpegSubtitleMeta>
    chapters,               \* Option: <<>> or <<events>>
    sidecar,                \* the [CHAPTER] blocks written to the chapters file
    input,                  \* the input part of the argument vector
    maps,                   \* the -map part of the argument vector
    output_presets,         \* the output preset arguments as passed on
    command_args,           \* the argument vector of the multiplexer
    fonts,                  \* Vec<PathBuf> of the fonts to attach
    steps,                  \* the steps of download() taken so far (observer)
    temp_files,             \* the temp files and pipes whose handle is alive (observer)
    mux_spawned,            \* how often the multiplexer was spawned (observer)
    ret,                    \* what download() returned: <<>> while it runs
    \* ---- SingleFormatCollection
    calls,                  \* the formats add_single_formats is called with
    calls_done,             \* how many of these calls were made
    k_pc,                   \* "idle", "adding", "iterating" or "done"
    collection,             \* the map of the seasons
    remaining,              \* the seasons the iterator still holds
    yielded                 \* the groups the iterator returned so far

fvars == <<total_segments, download_threads, faulty, wpc, wi, retry_count, werr,
           fail_log, attempts, count, channel, join_set, pc, data_pos, buf, written, result>>

\* the formats added and the options of the Downloader
options == <<added, merge_sync_tolerance, sync_result, overflow_checks, force_hardsub,
             dst_extension, default_subtitle, no_closed_caption, ffmpeg_preset,
             audio_sort, download_fonts, dst_kind, disk, fails>>

mvars == <<wait_outcome, fifo, eof_comes, total_frames, m_pc, child_awaited, token, p_pc,
           frame, bar, m_ret>>
\* the SingleFormatCollection and its iterator
kvars == <<calls, calls_done, k_pc, collection, remaining, yielded>>

cvars == <<video_len, events, font_cache, font_log, raw, max_length, fixed, mvars, kvars>>

\* what the plan assembly of download() produces
pvars == <<subtitles, chapters, sidecar, input, maps, output_presets, command_args>>

\* the fonts, the return value and the observers of a run of download()
rvars == <<fonts, steps, temp_files, mux_spawned, ret>>

dvars == <<options, cvars, d_pc, formats, raw_audios, root_format_idx, audio_offsets,
           subtitle_offsets, video_offset, warnings, audios, videos, pvars, rvars>>

vars == <<fvars, dvars>>

\* ------------------------------------------------------------- helpers
Min(a, b) == IF a < b THEN a ELSE b

NoErr == -1

Running == [kind |-> "running", index |-> -1]
Ok == [kind |-> "ok", index |-> -1]
RetryExhausted(idx) == [kind |-> "max_retry_count_reached", index |-> idx]
BufferNotEmpty == [kind |-> "buffer_not_empty", index |-> -1]

\* The body served for the segment with url s: 1 or 2 bytes, all different
\* from the bytes of every other segment.
BodyLen(s) == 1 + (s % 2)
Body(s) == [j \in 1..BodyLen(s) |-> 10 * s + j]

\* stream_data.segments(): the manifest, each segment identified by its url
Segments(n) == [k \in 1..n |-> k - 1]

RECURSIVE Concat(_, _)
\* concatenation of the bodies of the segments with url from..to-1
Concat(from, to) == IF from >= to THEN <<>> ELSE Body(from) \o Concat(from + 1, to)

\* let cpus = self.download_threads.min(segments.len());
Cpus(threads, n) == Min(threads, n)

\* mutant of SegSlot: the slots are filled from the last one down
SegSlot_reversed(i, cpus) == cpus - 1 - (i - ((i \div cpus) * cpus))

\* segs[i - ((i / cpus) * cpus)].push(segment)
SegSlot(i, cpus) == i - ((i \div cpus) * cpus)

\* the Vec<StreamSegment> handed to worker num
ThreadSegments(num, n, cpus) ==
    SelectSeq(Segments(n), LAMBDA s : SegSlot(s, cpus) = num)

\* mutants of SentIndex: num and i exchanged; the 1-based index of the log line
SentIndex_swapped(num, i, cpus) == i + (num * cpus)
SentIndex_oneBased(num, i, cpus) == num + (i * cpus) + 1

\* num + (i * cpus): the index a worker attaches to its i-th segment
SentIndex(num, i, cpus) == num + (i * cpus)

\* mutant of RetryLimitReached: one retry too many
RetryLimitReached_late(rc) == rc > MaxRetries

\* if retry_count == 5 { bail!(...) }
RetryLimitReached(rc) == rc = MaxRetries

\* retry_count += 1
NextRetryCount(rc) == rc + 1

\* if pos < 0 { break; }
IsSentinel(pos) == pos < 0

cpus == Cpus(download_threads, total_segments)
Workers == 0..(cpus - 1)
Finished(w) == wpc[w] \in {"ok", "err", "aborted"}
CurrentSegment(w) == ThreadSegments(w, total_segments, cpus)[wi[w] + 1]

\* mutant of ChannelClosed: the original sender is never dropped
ChannelClosed_senderKept == FALSE

\* every sender clone is gone: the original is dropped before the writer
\* loop, the clones of a task are dropped when the task ends
ChannelClosed == \A w \in Workers : Finished(w)

\* download_segments() is not running
FetchIdle ==
    /\ total_segments = 0
    /\ download_threads = 0
    /\ faulty = {}
    /\ wpc = <<>>
    /\ wi = <<>>
    /\ retry_count = <<>>
    /\ werr = <<>>
    /\ fail_log = <<>>
    /\ attempts = <<>>
    /\ count = 0
    /\ channel = <<>>
    /\ join_set = <<>>
    /\ pc = "idle"
    /\ data_pos = 0
    /\ buf = [p \in {} |-> <<>>]
    /\ written = <<>>
    /\ result = Running

\* the locals of download() as they are declared
LocalsEmpty ==
    /\ raw_audios = <<>>
    /\ root_format_idx = <<>>
    /\ audio_offsets = [i \in {} |-> 0]
    /\ subtitle_offsets = [i \in {} |-> 0]
    /\ video_offset = <<>>
    /\ warnings = {}
    /\ audios = <<>>
    /\ videos = <<>>
    /\ subtitles = <<>>
    /\ chapters = <<>>
    /\ sidecar = <<>>
    /\ input = <<>>
    /\ maps = <<>>
    /\ output_presets = <<>>
    /\ command_args = <<>>
    /\ fonts = <<>>
    /\ steps = <<>>
    /\ temp_files = {}
    /\ mux_spawned = 0
    /\ ret = <<>>

\* statvfs of a partition: whether the call succeeds, total_space() and
\* available_space() in bytes
Stat(ok, total, available) == [ok |-> ok, total |-> total, available |-> available]

\* a probe that finds two empty partitions of 1 GB
AmpleDisk ==
    [tmp |-> Stat(TRUE, 1000000000, 1000000000),
     dst |-> Stat(TRUE, 2000000000, 2000000000),
     cwd |-> TRUE]

\* a Downloader without formats
NoDownload ==
    /\ added = <<>>
    /\ merge_sync_tolerance = <<>>
    /\ sync_result = <<>>
    /\ overflow_checks = FALSE
    /\ force_hardsub = FALSE
    /\ dst_extension = ""
    /\ default_subtitle = <<>>
    /\ no_closed_caption = FALSE
    /\ ffmpeg_preset = <<>>
    /\ audio_sort = <<>>
    /\ download_fonts = FALSE
    /\ dst_kind = "file"
    /\ disk = AmpleDisk
    /\ fails = {}
    /\ formats = <<>>
    /\ LocalsEmpty

\* a TimeDelta: whole seconds and the nanoseconds behind them
Delta(secs, nanos) == [secs |-> secs, nanos |-> nanos]

\* no multiplexer was spawned and there is no progress task
NoMuxRun ==
    /\ wait_outcome = "success"
    /\ fifo = <<>>
    /\ eof_comes = FALSE
    /\ total_frames = 0
    /\ m_pc = "idle"
    /\ child_awaited = FALSE
    /\ token = FALSE
    /\ p_pc = "idle"
    /\ frame = 0
    /\ bar = <<>>
    /\ m_ret = <<>>

\* no SingleFormatCollection is in use
NoCollection ==
    /\ calls = <<>>
    /\ calls_done = 0
    /\ k_pc = "idle"
    /\ collection = [keys |-> <<>>, edges |-> <<>>]
    /\ remaining = <<>>
    /\ yielded = <<>>

\* an empty font cache directory, and no call of download_font or
\* fix_subtitles yet
NoFontCalls ==
    /\ font_cache = [f \in {} |-> ""]
    /\ font_log = <<>>
    /\ raw = <<>>
    /\ max_length = Delta(0, 0)
    /\ fixed = <<>>
    /\ NoMuxRun
    /\ NoCollection

\* download() is not running
DownloadIdle ==
    /\ NoDownload
    /\ NoFontCalls
    /\ d_pc = "idle"
    /\ video_len = 0
    /\ events = <<>>

\* ----------------------------------------------------------------- Init
Init ==
    /\ total_segments \in 1..MaxSegments
    /\ download_threads \in 1..MaxThreads
    /\ faulty \in {f \in SUBSET (0..(total_segments - 1)) : Cardinality(f) <= MaxFaulty}
    /\ wpc = [w \in 0..(Cpus(download_threads, total_segments) - 1) |-> "spawned"]
    /\ wi = [w \in 0..(Cpus(download_threads, total_segments) - 1) |-> 0]
    /\ retry_count = [w \in 0..(Cpus(download_threads, total_segments) - 1) |-> 0]
    /\ werr = [w \in 0..(Cpus(download_threads, total_segments) - 1) |-> NoErr]
    /\ fail_log = <<>>
    /\ attempts = [s \in 0..(total_segments - 1) |-> 0]
    /\ count = 0
    /\ channel = <<>>
    /\ join_set = <<>>
    /\ pc = "recv"
    /\ data_pos = 0
    /\ buf = [p \in {} |-> <<>>]
    /\ written = <<>>
    /\ result = Running
    /\ DownloadIdle

\* -------------------------------------------------------- worker tasks
\* thread_client.get(&segment.url)...send(): one more request for segment s
IssueRequest(s) == [attempts EXCEPT ![s] = Min(@ + 1, AttemptsCap)]

\* First poll of a spawned task: the loop is entered and the request for the
\* first segment of the task is sent.
Start(w) ==
    /\ wpc[w] = "spawned"
    /\ wpc' = [wpc EXCEPT ![w] = "resp"]
    /\ attempts' = IssueRequest(CurrentSegment(w))
    /\ UNCHANGED <<dvars, total_segments, download_threads, faulty, wi, retry_count, werr, fail_log,
                   count, channel, join_set, pc, data_pos, buf, written, result>>

\* mutant of OnError: the error is reported but the retry loop starts over
OnError_goesOn(w) ==
    IF RetryLimitReached(retry_count[w])
    THEN /\ werr' = [werr EXCEPT ![w] = SentIndex(w, wi[w], cpus)]
         /\ channel' = Append(channel, <<-1, <<>>>>)
         /\ fail_log' = IF werr[w] = NoErr THEN Append(fail_log, w) ELSE fail_log
         /\ attempts' = IssueRequest(CurrentSegment(w))
         /\ wpc' = [wpc EXCEPT ![w] = "resp"]
         /\ UNCHANGED <<retry_count, join_set, wi>>
    ELSE /\ retry_count' = [retry_count EXCEPT ![w] = NextRetryCount(@)]
         /\ attempts' = IssueRequest(CurrentSegment(w))
         /\ wpc' = [wpc EXCEPT ![w] = "resp"]
         /\ UNCHANGED <<werr, channel, join_set, fail_log, wi>>

\* The error branch of the retry loop: bail on the 6th failure (the closure
\* returns Err, the task sends the sentinel and ends), otherwise count the
\* retry and send the request again.
OnError(w) ==
    IF RetryLimitReached(retry_count[w])
    THEN /\ werr' = [werr EXCEPT ![w] = SentIndex(w, wi[w], cpus)]
         /\ channel' = Append(channel, <<-1, <<>>>>)
         /\ wpc' = [wpc EXCEPT ![w] = "err"]
         /\ join_set' = Append(join_set, w)
         /\ fail_log' = Append(fail_log, w)
         /\ UNCHANGED <<retry_count, attempts, wi>>
    ELSE /\ retry_count' = [retry_count EXCEPT ![w] = NextRetryCount(@)]
         /\ attempts' = IssueRequest(CurrentSegment(w))
         /\ wpc' = [wpc EXCEPT ![w] = "resp"]
         /\ UNCHANGED <<werr, channel, join_set, fail_log, wi>>

\* request.send().await returned Ok(r): the body read is awaited
ResponseOk(w) ==
    /\ wpc[w] = "resp"
    /\ wpc' = [wpc EXCEPT ![w] = "body"]
    /\ UNCHANGED <<dvars, total_segments, download_threads, faulty, wi, retry_count, werr, fail_log,
                   attempts, count, channel, join_set, pc, data_pos, buf, written, result>>

\* request.send().await returned Err(e)
ResponseErr(w) ==
    /\ wpc[w] = "resp"
    /\ CurrentSegment(w) \in faulty
    /\ OnError(w)
    /\ UNCHANGED <<dvars, total_segments, download_threads, faulty, count, pc,
                   data_pos, buf, written, result>>

\* r.bytes().await returned Ok(b): the message is sent, the counter is
\* incremented and the loop goes on with the next segment of the task, or
\* the task ends with Ok(()).
BodyOk(w) ==
    /\ wpc[w] = "body"
    /\ channel' = Append(channel, <<SentIndex(w, wi[w], cpus), Body(CurrentSegment(w))>>)
    /\ count' = count + 1
    /\ IF wi[w] + 1 < Len(ThreadSegments(w, total_segments, cpus))
       THEN /\ wi' = [wi EXCEPT ![w] = @ + 1]
            /\ retry_count' = [retry_count EXCEPT ![w] = 0]
            /\ attempts' = IssueRequest(ThreadSegments(w, total_segments, cpus)[wi[w] + 2])
            /\ wpc' = [wpc EXCEPT ![w] = "resp"]
            /\ UNCHANGED join_set
       ELSE /\ wpc' = [wpc EXCEPT ![w] = "ok"]
            /\ join_set' = Append(join_set, w)
            /\ UNCHANGED <<wi, retry_count, attempts>>
    /\ UNCHANGED <<dvars, total_segments, download_threads, faulty, werr, fail_log, pc, data_pos,
                   buf, written, result>>

\* r.bytes().await returned Err(e)
BodyErr(w) ==
    /\ wpc[w] = "body"
    /\ CurrentSegment(w) \in faulty
    /\ OnError(w)
    /\ UNCHANGED <<dvars, total_segments, download_threads, faulty, count, pc,
                   data_pos, buf, written, result>>

\* --------------------------------------------------------------- writer
\* mutant of BufInsert: the bytes are stored under the next key
BufInsert_shifted(b, pos, bytes) ==
    [p \in (DOMAIN b) \cup {pos + 1} |-> IF p = pos + 1 THEN bytes ELSE b[p]]

\* buf.insert(pos, bytes)
BufInsert(b, pos, bytes) ==
    [p \in (DOMAIN b) \cup {pos} |-> IF p = pos THEN bytes ELSE b[p]]
BufRemove(b, pos) == [p \in (DOMAIN b) \ {pos} |-> b[p]]

RECURSIVE Drain(_, _, _)
\* while let Some(b) = buf.remove(&data_pos) { write_all(b); data_pos += 1 }
Drain(dp, b, out) ==
    IF dp \in DOMAIN b
    THEN Drain(dp + 1, BufRemove(b, dp), out \o b[dp])
    ELSE [data_pos |-> dp, buf |-> b, written |-> out]

\* mutants of Store: bytes written in arrival order; data_pos not advanced
\* after a direct write
Store_arrival(dp, b, out, pos, bytes) == Drain(dp + 1, b, out \o bytes)
Store_noAdvance(dp, b, out, pos, bytes) ==
    IF dp = pos
    THEN Drain(dp, b, out \o bytes)
    ELSE Drain(dp, BufInsert(b, pos, bytes), out)

\* the body of the receive loop for one data message
Store(dp, b, out, pos, bytes) ==
    IF dp = pos
    THEN Drain(dp + 1, b, out \o bytes)
    ELSE Drain(dp, BufInsert(b, pos, bytes), out)

\* receiver.recv().await returned Some((pos, bytes))
Recv ==
    /\ pc = "recv"
    /\ channel # <<>>
    /\ channel' = Tail(channel)
    /\ LET pos == Head(channel)[1]
           bytes == Head(channel)[2]
       IN IF IsSentinel(pos)
          THEN /\ pc' = "join"
               /\ UNCHANGED <<data_pos, buf, written>>
          ELSE LET r == Store(data_pos, buf, written, pos, bytes)
               IN /\ data_pos' = r.data_pos
                  /\ buf' = r.buf
                  /\ written' = r.written
                  /\ UNCHANGED pc
    /\ UNCHANGED <<dvars, total_segments, download_threads, faulty, wpc, wi, retry_count,
                   werr, fail_log, attempts, count, join_set, result>>

\* receiver.recv().await returned None: the channel is empty and closed
RecvNone ==
    /\ pc = "recv"
    /\ channel = <<>>
    /\ ChannelClosed
    /\ pc' = "join"
    /\ UNCHANGED <<dvars, total_segments, download_threads, faulty, wpc, wi, retry_count,
                   werr, fail_log, attempts, count, channel, join_set, data_pos, buf, written,
                   result>>

\* mutant of JoinNext: the task that finished last is returned first
JoinNext_last(js) == js[Len(js)]

\* join_next() yields the finished tasks in the order they finished
JoinNext(js) == Head(js)

\* join_set.join_next().await returned a task that ended with Ok(())
JoinOk ==
    /\ pc = "join"
    /\ join_set # <<>>
    /\ werr[JoinNext(join_set)] = NoErr
    /\ join_set' = Tail(join_set)
    /\ UNCHANGED <<dvars, total_segments, download_threads, faulty, wpc, wi, retry_count,
                   werr, fail_log, attempts, count, channel, pc, data_pos, buf, written, result>>

\* join_set.join_next().await returned a task that ended with Err: `joined??`
\* returns it, and dropping the JoinSet aborts the tasks still running.
JoinErr ==
    /\ pc = "join"
    /\ join_set # <<>>
    /\ werr[JoinNext(join_set)] # NoErr
    /\ result' = RetryExhausted(werr[JoinNext(join_set)])
    /\ pc' = "done"
    /\ wpc' = [w \in Workers |-> IF Finished(w) THEN wpc[w] ELSE "aborted"]
    /\ UNCHANGED <<dvars, total_segments, download_threads, faulty, wi, retry_count, werr, fail_log,
                   attempts, count, channel, join_set, data_pos, buf, written>>

\* join_next() returned None: every task was joined. The remaining buffer is
\* written and a buffer that is still not empty is an error.
Finish ==
    /\ pc = "join"
    /\ join_set = <<>>
    /\ \A w \in Workers : wpc[w] \in {"ok", "err"}
    /\ LET r == Drain(data_pos, buf, written)
       IN /\ data_pos' = r.data_pos
          /\ buf' = r.buf
          /\ written' = r.written
          /\ result' = IF DOMAIN r.buf # {} THEN BufferNotEmpty ELSE Ok
    /\ pc' = "done"
    /\ UNCHANGED <<dvars, total_segments, download_threads, faulty, wpc, wi, retry_count,
                   werr, fail_log, attempts, count, channel, join_set>>

Next ==
    \/ \E w \in Workers : Start(w)
    \/ \E w \in Workers : ResponseOk(w)
    \/ \E w \in Workers : ResponseErr(w)
    \/ \E w \in Workers : BodyOk(w)
    \/ \E w \in Workers : BodyErr(w)
    \/ Recv
    \/ RecvNone
    \/ JoinOk
    \/ JoinErr
    \/ Finish

Spec == Init /\ [][Next]_vars

\* every request is answered and every runnable task is scheduled
FairSpec == Spec /\ WF_vars(Next)

\* Scenario S5: 10 segments, 2 workers, only segment 3 can fail
InitS5 ==
    /\ total_segments = 10
    /\ download_threads = 2
    /\ faulty = {3}
    /\ wpc = [w \in 0..(1) |-> "spawned"]
    /\ wi = [w \in 0..(1) |-> 0]
    /\ retry_count = [w \in 0..(1) |-> 0]
    /\ werr = [w \in 0..(1) |-> NoErr]
    /\ fail_log = <<>>
    /\ attempts = [s \in 0..(9) |-> 0]
    /\ count = 0
    /\ channel = <<>>
    /\ join_set = <<>>
    /\ pc = "recv"
    /\ data_pos = 0
    /\ buf = [p \in {} |-> <<>>]
    /\ written = <<>>
    /\ result = Running
    /\ DownloadIdle

SpecS5 == InitS5 /\ [][Next]_vars

\* the segments handed to worker w
Owned(w) == {s \in 0..(total_segments - 1) : SegSlot(s, cpus) = w}

IsPrefix(a, b) == Len(a) <= Len(b) /\ a = SubSeq(b, 1, Len(a))

\* ------------------------------------------------------------- claims

\* C1: whenever download_segments returns Ok, the bytes written are exactly
\* the concatenation of the bodies of segments 0..N-1 in index order, and the
\* reorder buffer is empty.
C1_OkWritesAll ==
    result = Ok => (written = Concat(0, total_segments) /\ DOMAIN buf = {})

C1_Witness ==
    /\ result = Ok
    /\ total_segments >= 3
    /\ cpus >= 2
    /\ \E s \in 0..(total_segments - 1) : attempts[s] > 1

\* C2: when no request fails, every interleaving of the workers ends with
\* the same output: the run returns Ok and the bytes written are the
\* concatenation of all bodies in index order.
C2_ScheduleIndependent ==
    (pc = "done" /\ \A s \in 0..(total_segments - 1) : attempts[s] <= 1)
        => (result = Ok /\ written = Concat(0, total_segments))

C2_Witness ==
    /\ pc = "done"
    /\ \A s \in 0..(total_segments - 1) : attempts[s] = 1
    /\ cpus >= 2
    /\ total_segments >= 3
    /\ count = total_segments

C4_SixAttempts ==
    /\ \A s \in 0..(total_segments - 1) : attempts[s] <= MaxRetries + 1
    /\ \A w \in Workers :
          /\ wpc[w] \in {"resp", "body"} => attempts[CurrentSegment(w)] = retry_count[w] + 1
          /\ wpc[w] = "err" =>
                /\ attempts[CurrentSegment(w)] = MaxRetries + 1
                /\ retry_count[w] = MaxRetries
                /\ werr[w] = CurrentSegment(w)

C4_Witness == \E w \in Workers : wpc[w] = "err" /\ attempts[CurrentSegment(w)] = 6

\* C5 as stated: once a worker has raised the retry-exhausted error, no
\* worker starts the request of a further segment.
C5_Original ==
    [][(\E w \in Workers : werr[w] # NoErr)
          => \A v \in Workers :
                /\ wi'[v] = wi[v]
                /\ (wpc[v] = "spawned" => wpc'[v] # "resp")]_vars

\* C5 amended: once a worker has raised the retry-exhausted error, that
\* worker issues no further request.
C5_FailedWorkerStops ==
    [][\A w \in Workers : werr[w] # NoErr
          => \A s \in Owned(w) : attempts'[s] = attempts[s]]_vars

C5_Witness ==
    \E w \in Workers :
        /\ werr[w] # NoErr
        /\ wi[w] + 1 < Len(ThreadSegments(w, total_segments, cpus))
        /\ \E v \in Workers : v # w /\ wpc[v] \in {"resp", "body"}

\* C6 as stated: in scenario S5 the output is exactly segments 0, 1, 2 and
\* the error is the retry-exhausted error of index 3.
C6_Original ==
    (pc = "done" /\ fail_log # <<>>)
        => (written = Concat(0, 3) /\ result = RetryExhausted(3))

\* C6 amended: in scenario S5 the output is a prefix of segments 0, 1, 2 made
\* of whole segments, the error is the retry-exhausted error of index 3 and
\* no byte of segment 3 is written.
C6_PrefixOfFirstThree ==
    (pc = "done" /\ fail_log # <<>>)
        => /\ result = RetryExhausted(3)
           /\ \E k \in 0..3 : written = Concat(0, k)
           /\ \A j \in 1..Len(written) : \A b \in 1..Len(Body(3)) : written[j] # Body(3)[b]

C6_Witness ==
    /\ pc = "done"
    /\ fail_log = <<1>>
    /\ written = Concat(0, 3)
    /\ attempts[3] = 6

\* C7: a fetch always terminates: download_segments eventually returns.
C7_Terminates == <>(pc = "done")

C7_Witness ==
    /\ pc = "done"
    /\ fail_log # <<>>
    /\ \E w \in Workers : wpc[w] = "aborted"

\* C8: when a worker failed, download_segments returns the error of the
\* worker that failed first, never Ok and never the error of a later one.
C8_FirstErrorReturned ==
    (pc = "done" /\ fail_log # <<>>) => result = RetryExhausted(werr[fail_log[1]])

C8_Witness ==
    /\ pc = "done"
    /\ Len(fail_log) >= 2
    /\ werr[fail_log[1]] # werr[fail_log[2]]

(***************************************************************************)
(* Part II - Downloader::download                                          *)
(***************************************************************************)

\* the video manifests a variant can have: the lengths of the segments in ms
VideoManifests == {<<400>>, <<12000, 12000>>, <<12000, 12500>>}
\* the offsets (ms) sync_audios can report for a variant
OffsetValues == {0, 500, 15500}

LocaleOf(i) == <<"ja-JP", "en-US", "de-DE", "fr-FR", "es-ES">>[i + 1]
VideoPath(id) == "video" \o ToString(id) \o ".mp4"
AudioPath(id, j) == "audio" \o ToString(id) \o "_" \o ToString(j) \o ".m4a"
\* the temp file of subtitle j of format i (indices at download time)
SubtitlePath(i, j) == "subtitle" \o ToString(i) \o "_" \o ToString(j) \o ".ass"
\* tempfile(".chapter")
ChapterPath == "sidecar.chapter"
\* temp_named_pipe()
FifoPath == "fifo"
\* the destination, a bare file name with the extension ext
DstPath(ext) == "out." \o ext
\* the destination extensions tried
Extensions == {"mkv", "mov", "mp4", "avi"}
\* the output arguments of the default FFmpegPreset
DefaultPreset == <<"-c:v", "copy", "-c:a", "copy">>
\* the words an output preset is made of
PresetArgs == {"-c:v", "-c:a", "copy", "libx264"}

\* the (Subtitle, bool) list a variant can carry: none, a plain one, or a
\* closed-caption one followed by a plain one; owner records the variant the
\* subtitle was added with
SubtitleLayouts == {"none", "plain", "cc_plain"}
SubtitlesOf(id, layout) ==
    IF layout = "none"
    THEN <<>>
    ELSE IF layout = "plain"
         THEN <<[locale |-> LocaleOf(id), cc |-> FALSE, owner |-> id]>>
         ELSE <<[locale |-> LocaleOf(id), cc |-> TRUE, owner |-> id],
                [locale |-> LocaleOf(id), cc |-> FALSE, owner |-> id]>>

\* SkipEvents of variant id: an intro, at a time that tells the variants apart.
\* Times are kept in milliseconds (t stands for the f32 value t / 1000).
SkipEventsOf(id) ==
    [recap |-> <<>>,
     intro |-> <<[start |-> 1000 * (id + 1), end |-> 1000 * (id + 1) + 5000]>>,
     credits |-> <<>>,
     preview |-> <<>>]

\* a DownloadFormat
Format(id, manifest, subs, skip) ==
    [id |-> id,
     video |-> manifest,
     locale |-> LocaleOf(id),
     audios |-> <<LocaleOf(id)>>,
     subtitles |-> subs,
     skip_events |-> skip]

\* the DownloadFormat of variant id: one audio, one subtitle, skip events
MkFormat(id, manifest) ==
    Format(id, manifest, SubtitlesOf(id, "plain"), <<SkipEventsOf(id)>>)

RECURSIVE Flatten(_)
\* Vec::extend, repeated: the concatenation of a list of lists
Flatten(ss) == IF ss = <<>> THEN <<>> ELSE Head(ss) \o Flatten(Tail(ss))

RECURSIVE SumMillis(_)
\* segments.iter().map(|s| s.length.as_millis()).sum()
SumMillis(segs) == IF segs = <<>> THEN 0 ELSE Head(segs) + SumMillis(Tail(segs))

\* len_from_segments(): the same sum as a TimeDelta
len_from_segments(segs) == SumMillis(segs)

\* offsets.get(&i).copied().unwrap_or_default()
OffsetOrDefault(offs, i) == IF i \in DOMAIN offs THEN offs[i] ELSE 0

\* TimeDelta::num_seconds(): whole seconds, rounded towards zero
NumSeconds(ms) == IF ms >= 0 THEN ms \div 1000 ELSE -((-ms) \div 1000)

SetMax(S) == CHOOSE x \in S : \A y \in S : y <= x
SetMin(S) == CHOOSE x \in S : \A y \in S : x <= y

\* mutant of SanityRejects: every offset map passes
SanityRejects_never(fs, offs) == FALSE

\* if max.num_seconds() - min.num_seconds() > 15
SanityRejects(fs, offs) ==
    LET formats_with_offset ==
            {len_from_segments(fs[k].video) - OffsetOrDefault(offs, k - 1) : k \in 1..Len(fs)}
    IN NumSeconds(SetMax(formats_with_offset)) - NumSeconds(SetMin(formats_with_offset)) > 15

\* A u64 is represented by an integer r congruent to it modulo 2^64 with
\* |r| < 2^31: r >= 0 stands for r, r < 0 for 2^64 + r. Wrapping subtraction
\* is then the subtraction of the representatives, and the order of two u64
\* is U64Lt.
U64Lt(a, b) == IF (a >= 0) = (b >= 0) THEN a < b ELSE a >= 0

\* sum::<u128>() as u64 - offset.num_milliseconds() as u64, wrapping
FormatLen(f, offs, i) == SumMillis(f.video) - OffsetOrDefault(offs, i)

\* the same subtraction overflows: it panics when overflow checks are on
FormatLenOverflows(f, offs, i) == U64Lt(SumMillis(f.video), OffsetOrDefault(offs, i))

\* mutant of LongerThanRoot: a variant as long as the root replaces it
LongerThanRoot_orEqual(format_len, root_format_length) ==
    ~U64Lt(format_len, root_format_length)

\* if format_len > root_format_length
LongerThanRoot(format_len, root_format_length) == U64Lt(root_format_length, format_len)

RECURSIVE RootLoop(_, _, _, _, _)
\* the loop that selects root_format_idx, from iteration i on
RootLoop(fs, offs, i, root_idx, root_len) ==
    IF i >= Len(fs)
    THEN root_idx
    ELSE LET format_len == FormatLen(fs[i + 1], offs, i)
         IN IF LongerThanRoot(format_len, root_len)
            THEN RootLoop(fs, offs, i + 1, i, format_len)
            ELSE RootLoop(fs, offs, i + 1, root_idx, root_len)

SelectRoot(fs, offs) == RootLoop(fs, offs, 0, 0, 0)

\* audio_offsets / subtitle_offsets: entry i for every format i that has a
\* track of the kind and an offset
OffsetsFor(fs, offs, kind) ==
    [i \in {j \in 0..(Len(fs) - 1) : fs[j + 1][kind] # <<>> /\ j \in DOMAIN offs} |-> offs[i]]

\* self.formats.remove(root_format_idx): the formats left
RemoveAt(fs, idx) == [k \in 1..(Len(fs) - 1) |-> IF k - 1 < idx THEN fs[k] ELSE fs[k + 1]]

RECURSIVE MergeLoop(_, _, _, _, _)
\* the loop over the formats left, from iteration i on: the tracks of kind
\* `kind` collected for the prepend (pre) and append (app) lists
MergeLoop(rest, i, root_idx, kind, acc) ==
    IF i >= Len(rest)
    THEN acc
    ELSE IF i < root_idx
         THEN MergeLoop(rest, i + 1, root_idx, kind,
                        [acc EXCEPT !.pre = @ \o rest[i + 1][kind]])
         ELSE MergeLoop(rest, i + 1, root_idx, kind,
                        [acc EXCEPT !.app = @ \o rest[i + 1][kind]])

\* mutant of Merge: the tracks of all other formats are put behind the root's
Merge_rootFirst(fs, root_idx) ==
    LET root_format == fs[root_idx + 1]
        rest == RemoveAt(fs, root_idx)
    IN [root_format EXCEPT
           !.audios = @ \o Flatten([k \in 1..Len(rest) |-> rest[k].audios]),
           !.subtitles = @ \o Flatten([k \in 1..Len(rest) |-> rest[k].subtitles])]

\* the root format after the tracks of the other formats were spliced in
Merge(fs, root_idx) ==
    LET root_format == fs[root_idx + 1]
        rest == RemoveAt(fs, root_idx)
        a == MergeLoop(rest, 0, root_idx, "audios", [pre |-> <<>>, app |-> <<>>])
        t == MergeLoop(rest, 0, root_idx, "subtitles", [pre |-> <<>>, app |-> <<>>])
    IN [root_format EXCEPT !.audios = a.pre \o @ \o a.app,
                           !.subtitles = t.pre \o @ \o t.app]

RECURSIVE AllAudios(_, _)
\* the audios in download order: for every format i, for every audio of it
AllAudios(fs, i) ==
    IF i >= Len(fs)
    THEN <<>>
    ELSE [j \in 1..Len(fs[i + 1].audios) |->
             [format_id |-> i,
              path |-> AudioPath(fs[i + 1].id, j - 1),
              locale |-> fs[i + 1].audios[j],
              video_idx |-> i]]
         \o AllAudios(fs, i + 1)

\* HashMap::get(..).copied() as an Option
MapGet(m, k) == IF k \in DOMAIN m THEN <<m[k]>> ELSE <<>>

Pad2(n) == IF n < 10 THEN "0" \o ToString(n) ELSE ToString(n)
Pad3(n) == IF n < 10 THEN "00" \o ToString(n) ELSE IF n < 100 THEN "0" \o ToString(n) ELSE ToString(n)

\* utils::fmt::format_time_delta: [-]HH:MM:SS.mmm
format_time_delta(ms) ==
    LET a == IF ms < 0 THEN -ms ELSE ms
    IN (IF ms < 0 THEN "-" ELSE "")
       \o Pad2(a \div 3600000) \o ":" \o Pad2((a \div 60000) % 60) \o ":"
       \o Pad2((a \div 1000) % 60) \o "." \o Pad3(a % 1000)

\* [-ss <start_time>] -i <path>
InputArgs(meta) ==
    (IF meta.start_time # <<>>
     THEN <<"-ss", format_time_delta(meta.start_time[1])>>
     ELSE <<>>)
    \o <<"-i", meta.path>>

RECURSIVE AllInputArgs(_)
AllInputArgs(metas) ==
    IF metas = <<>> THEN <<>> ELSE InputArgs(Head(metas)) \o AllInputArgs(Tail(metas))

\* the subtitles of format i (0-based) that are downloaded, in order
SubtitlesToDownload(fs, i, no_cc) ==
    LET subs == fs[i + 1].subtitles
        metas == [j \in 1..Len(subs) |->
                     [i |-> i, j |-> j - 1, locale |-> subs[j].locale,
                      cc |-> subs[j].cc, owner |-> subs[j].owner]]
    IN SelectSeq(metas, LAMBDA m : ~(m.cc /\ no_cc))

\* the subtitles in download order: for every format, for every subtitle of it
AllSubtitles(fs, no_cc) ==
    Flatten([k \in 1..Len(fs) |-> SubtitlesToDownload(fs, k - 1, no_cc)])

\* the events of a SkipEvents value: recap, intro, credits, preview, those
\* that are present
ChapterEvents(skip_events) ==
    (IF skip_events.recap # <<>>
     THEN <<[name |-> "Recap", start |-> skip_events.recap[1].start, end |-> skip_events.recap[1].end]>>
     ELSE <<>>)
    \o (IF skip_events.intro # <<>>
        THEN <<[name |-> "Intro", start |-> skip_events.intro[1].start, end |-> skip_events.intro[1].end]>>
        ELSE <<>>)
    \o (IF skip_events.credits # <<>>
        THEN <<[name |-> "Credits", start |-> skip_events.credits[1].start, end |-> skip_events.credits[1].end]>>
        ELSE <<>>)
    \o (IF skip_events.preview # <<>>
        THEN <<[name |-> "Preview", start |-> skip_events.preview[1].start, end |-> skip_events.preview[1].end]>>
        ELSE <<>>)

RECURSIVE ChaptersLoop(_, _, _)
\* the loop over self.formats that fills `chapters`, from iteration i on:
\* every format with skip events replaces what was collected before
ChaptersLoop(fs, i, acc) ==
    IF i >= Len(fs)
    THEN acc
    ELSE IF fs[i + 1].skip_events # <<>>
         THEN ChaptersLoop(fs, i + 1, <<ChapterEvents(fs[i + 1].skip_events[1])>>)
         ELSE ChaptersLoop(fs, i + 1, acc)

\* chapters: <<>> for None, <<events>> for Some(((file, path), events))
CollectedChapters(fs) == ChaptersLoop(fs, 0, <<>>)

\* max_len after the video loop: the greatest len of a video
MaxLength(vs) == SetMax({vs[k].length : k \in 1..Len(vs)})

\* ------------------------------------------------ write_ffmpeg_chapters
RECURSIVE InsertByStart(_, _)
\* e is put behind every event that does not start later than it
InsertByStart(sorted, e) ==
    IF sorted = <<>>
    THEN <<e>>
    ELSE IF e.start < Head(sorted).start
         THEN <<e>> \o sorted
         ELSE <<Head(sorted)>> \o InsertByStart(Tail(sorted), e)

RECURSIVE SortLoop(_, _)
SortLoop(evs, sorted) ==
    IF evs = <<>> THEN sorted ELSE SortLoop(Tail(evs), InsertByStart(sorted, Head(evs)))

\* mutant of SortByStart: the events are written in the order given
SortByStart_asGiven(evs) == evs

\* events.sort_by(|a, b| a.start.total_cmp(&b.start)): a stable sort
SortByStart(evs) == SortLoop(evs, <<>>)

\* mutant of GapExceeds: a gap of exactly 10 s counts
GapExceeds_orEqual(last_end_time, start) == start - last_end_time >= 10000

\* if event.start - last_end_time > 10.0
GapExceeds(last_end_time, start) == start - last_end_time > 10000

\* (seconds * 1000.0) as u32: the cast saturates, a negative value gives 0
AsU32(ms) == IF ms < 0 THEN 0 ELSE ms

\* one [CHAPTER] block: TIMEBASE=1/1000, START, END, title
Chapter(start, end, title) == [START |-> AsU32(start), END |-> AsU32(end), title |-> title]

RECURSIVE ChapterBlocks(_, _, _)
\* the loop over the sorted events and the trailing chapter behind it
ChapterBlocks(evs, last_end_time, len) ==
    IF evs = <<>>
    THEN IF GapExceeds(last_end_time, len)
         THEN <<Chapter(last_end_time, len, "Episode")>>
         ELSE <<>>
    ELSE (IF GapExceeds(last_end_time, Head(evs).start)
          THEN <<Chapter(last_end_time, Head(evs).start, "Episode")>>
          ELSE <<>>)
         \o <<Chapter(Head(evs).start, Head(evs).end, Head(evs).name)>>
         \o ChapterBlocks(Tail(evs), Head(evs).end, len)

\* the [CHAPTER] blocks written behind the ;FFMETADATA1 header
write_ffmpeg_chapters(len, evs) == ChapterBlocks(SortByStart(evs), 0, len)

\* --------------------------------------------------- the argument vector
\* mutant of ContainerSupportsSoftsubs: force_hardsub is not looked at
ContainerSupportsSoftsubs_anyway(hardsub, ext) == ext \in {"mkv", "mov", "mp4"}

\* container_supports_softsubs
ContainerSupportsSoftsubs(hardsub, ext) == ~hardsub /\ ext \in {"mkv", "mov", "mp4"}

\* Locale::to_human_readable of the crunchyroll-rs crate: some name of the locale
to_human_readable(locale) == "(" \o locale \o ")"

\* mutant of MapArgs: every kind of track counts from 0
MapArgs_restart(n, before) == Flatten([k \in 1..n |-> <<"-map", ToString(k - 1)>>])

\* the -map argument of every input of a kind: n inputs behind `before` others
MapArgs(n, before) == Flatten([k \in 1..n |-> <<"-map", ToString(k - 1 + before)>>])

VideoMetadata(vs) ==
    Flatten([k \in 1..Len(vs) |->
        <<"-metadata:s:v:" \o ToString(k - 1),
          "title=" \o (IF Len(vs) = 1 THEN "Default" ELSE "#" \o ToString(k)),
          "-metadata:s:v:" \o ToString(k - 1),
          "language=">>])

AudioMetadata(as, vs) ==
    Flatten([k \in 1..Len(as) |->
        <<"-metadata:s:a:" \o ToString(k - 1),
          "language=" \o as[k].locale,
          "-metadata:s:a:" \o ToString(k - 1),
          "title=" \o to_human_readable(as[k].locale)
             \o (IF Len(vs) = 1
                 THEN ""
                 ELSE " [Video: #" \o ToString(as[k].video_idx + 1) \o "]")>>])

SubtitleMetadata(ss, vs) ==
    Flatten([k \in 1..Len(ss) |->
        <<"-metadata:s:s:" \o ToString(k - 1),
          "language=" \o ss[k].locale,
          "-metadata:s:s:" \o ToString(k - 1),
          "title=" \o ss[k].locale
             \o (IF ss[k].cc THEN " (CC)" ELSE "")
             \o (IF Len(vs) > 1
                 THEN " [Video: #" \o ToString(ss[k].video_idx + 1) \o "]"
                 ELSE "")>>])

\* mutant of Position: the entry behind the first one with the locale
Position_next(ss, locale) ==
    IF \E k \in 1..Len(ss) : ss[k].locale = locale
    THEN <<CHOOSE k \in 1..Len(ss) :
              /\ ss[k].locale = locale
              /\ \A l \in 1..(k - 1) : ss[l].locale # locale>>
    ELSE <<>>

\* subtitles.iter().position(|m| m.locale == default_subtitle), as an Option
Position(ss, locale) ==
    IF \E k \in 1..Len(ss) : ss[k].locale = locale
    THEN <<(CHOOSE k \in 1..Len(ss) :
              /\ ss[k].locale = locale
              /\ \A l \in 1..(k - 1) : ss[l].locale # locale) - 1>>
    ELSE <<>>

\* mutant of DefaultPosition: the first subtitle, whatever the default is
DefaultPosition_first(ss, default) == IF ss = <<>> THEN <<>> ELSE <<0>>

\* the position of the subtitle that is made the default one
DefaultPosition(ss, default) == IF default = <<>> THEN <<>> ELSE Position(ss, default[1])

RECURSIVE StripLoop(_, _, _, _, _)
\* the loop over output_presets.clone() that removes `-c:v copy` and
\* `-c:a copy`, from iteration i on
StripLoop(orig, i, last, remove_count, out) ==
    IF i >= Len(orig)
    THEN out
    ELSE IF (last = "-c:v" \/ last = "-c:a") /\ orig[i + 1] = "copy"
         THEN StripLoop(orig, i + 1, orig[i + 1], remove_count + 2,
                        RemoveAt(RemoveAt(out, i - remove_count - 1),
                                 i - (remove_count + 1)))
         ELSE StripLoop(orig, i + 1, orig[i + 1], remove_count, out)

StripCodecCopy(presets) == StripLoop(presets, 0, "", 0, presets)

\* output_presets when the command is run
OutputPresets(presets, ss, default, soft, ext) ==
    IF DefaultPosition(ss, default) = <<>>
    THEN presets
    ELSE IF soft
         THEN IF ext \in {"mov", "mp4"}
              THEN presets \o <<"-movflags", "faststart", "-c:s", "mov_text">>
              ELSE presets
         ELSE StripCodecCopy(presets)
              \o <<"-vf", "ass='" \o ss[DefaultPosition(ss, default)[1] + 1].path \o "'">>

\* -disposition:s:s:<position> default
DefaultDisposition(ss, default, soft) ==
    IF soft /\ DefaultPosition(ss, default) # <<>>
    THEN <<"-disposition:s:s:" \o ToString(DefaultPosition(ss, default)[1]), "default">>
    ELSE <<>>

\* if !subtitle.cc { continue }
IsForced(meta) == meta.cc

\* -disposition:s:s:<i> forced, for the closed-caption subtitles
ForcedDispositions(ss) ==
    Flatten([k \in 1..Len(ss) |->
        IF IsForced(ss[k])
        THEN <<"-disposition:s:s:" \o ToString(k - 1), "forced">>
        ELSE <<>>])

PartialMaps(n) == UNION {[D -> OffsetValues] : D \in SUBSET (0..(n - 1))}

\* the locals of download() when it is entered; nothing else is running
DownloadLocals ==
    /\ d_pc = "start"
    /\ formats = added
    /\ LocalsEmpty
    /\ video_len = 0
    /\ events = <<>>
    /\ NoFontCalls
    /\ FetchIdle

\* some u64 subtraction of the root selection overflows with these offsets
SubtractionOverflows(fs, sync) ==
    /\ sync # <<>>
    /\ \E i \in 0..(Len(fs) - 1) : FormatLenOverflows(fs[i + 1], sync[1], i)

\* Runs that differ in the variants' lengths and in what sync_audios returns;
\* soft subtitles in a mkv file, the default preset. The two build profiles
\* are told apart only where they differ, in the runs with an overflow.
DownloadInit ==
    /\ \E n \in 1..MaxVariants : \E m \in [1..n -> VideoManifests] :
          /\ added = [k \in 1..n |-> MkFormat(k - 1, m[k])]
          /\ sync_result \in {<<>>} \cup {<<o>> : o \in PartialMaps(n)}
    /\ merge_sync_tolerance \in {<<>>, <<6>>}
    /\ merge_sync_tolerance = <<>> => sync_result = <<>>
    /\ overflow_checks \in BOOLEAN
    /\ overflow_checks => SubtractionOverflows(added, sync_result)
    /\ force_hardsub = FALSE
    /\ dst_extension = "mkv"
    /\ default_subtitle = <<>>
    /\ no_closed_caption = FALSE
    /\ ffmpeg_preset = DefaultPreset
    /\ audio_sort = <<>>
    /\ download_fonts = TRUE
    /\ dst_kind = "file"
    /\ disk = AmpleDisk
    /\ fails = {}
    /\ DownloadLocals

\* Runs that differ in the subtitles and skip events of the variants and in
\* the options of the Downloader; the variants have the same length and
\* sync_audios, where it runs, finds nothing, the offset 0 for every variant,
\* or an offset that grows by half a second from variant to variant.
PlanInit ==
    /\ \E n \in 1..MaxPlanVariants :
          /\ \E l \in [1..n -> SubtitleLayouts] : \E s \in [1..n -> BOOLEAN] :
                added = [k \in 1..n |->
                            Format(k - 1, <<12000, 12000>>, SubtitlesOf(k - 1, l[k]),
                                   IF s[k] THEN <<SkipEventsOf(k - 1)>> ELSE <<>>)]
          /\ sync_result \in {<<>>, <<[i \in 0..(n - 1) |-> 0]>>,
                             <<[i \in 0..(n - 1) |-> 500 * i]>>}
    /\ merge_sync_tolerance \in {<<>>, <<6>>}
    /\ merge_sync_tolerance = <<>> => sync_result = <<>>
    /\ overflow_checks = FALSE
    /\ force_hardsub \in BOOLEAN
    /\ dst_extension \in Extensions
    /\ default_subtitle \in {<<>>, <<LocaleOf(0)>>, <<LocaleOf(1)>>}
    /\ no_closed_caption \in BOOLEAN
    /\ ffmpeg_preset = DefaultPreset
    /\ audio_sort = <<>>
    /\ download_fonts = TRUE
    /\ dst_kind = "file"
    /\ disk = AmpleDisk
    /\ fails = {}
    /\ DownloadLocals

\* the lists of at most n preset words
PresetLists(n) == UNION {[1..k -> PresetArgs] : k \in 0..n}

\* Runs of one variant with a subtitle of the default subtitle locale, for
\* every output preset.
PresetInit ==
    /\ added = <<MkFormat(0, <<12000, 12000>>)>>
    /\ sync_result = <<>>
    /\ merge_sync_tolerance = <<>>
    /\ overflow_checks = FALSE
    /\ force_hardsub \in BOOLEAN
    /\ dst_extension \in {"mkv", "mp4"}
    /\ default_subtitle = <<LocaleOf(0)>>
    /\ no_closed_caption = FALSE
    /\ ffmpeg_preset \in PresetLists(MaxPresetLen)
    /\ audio_sort = <<>>
    /\ download_fonts = TRUE
    /\ dst_kind = "file"
    /\ disk = AmpleDisk
    /\ fails = {}
    /\ DownloadLocals

\* ------------------------------------------- download_font on its own
\* two of the 68 (name, file) pairs of the font table
FONTS == <<<<"Arial", "arial.woff2">>, <<"Webdings", "webdings.woff2">>>>

\* the font names asked for: two of the table and one that is not in it
FontNames == {"Arial", "Webdings", "Helvetica"}

\* the bodies the font server can answer a request with
FontBodies == {"woff2 a", "woff2 b"}

\* FONTS.iter().find(|(f, _)| f == &name): the file of the first pair with
\* that name, <<>> if there is none
FindFont(name) ==
    LET hits == SelectSeq(FONTS, LAMBDA e : e[1] = name)
    IN IF hits = <<>> THEN <<>> ELSE <<hits[1][2]>>

\* cache_dir("fonts").join(font_file)
FontPath(font_file) == "cache/fonts/" \o font_file

\* mutant of FileExists: the cached file is never found
FileExists_never(cache, font_file) == FALSE

\* file.exists()
FileExists(cache, font_file) == font_file \in DOMAIN cache

\* fs::write(&file, font): the file is created, or replaced, with these bytes
WriteFile(cache, font_file, bytes) ==
    [f \in (DOMAIN cache) \cup {font_file} |-> IF f = font_file THEN bytes ELSE cache[f]]

\* what can happen on the way of a call: cache_dir() fails (it can while the
\* directory holds no file and may have to be created), the request or the
\* read of its body fails, fs::write fails before or after it created the
\* file, or nothing fails
FontOutcomes == {"ok", "cache_dir_failed", "request_failed", "write_failed", "write_cut"}

\* download_font(name) with the cache directory as it is, the outcome of the
\* steps that can fail and the body the server answers with: the value
\* returned, the cache directory afterwards and the requests sent
download_font(name, cache, outcome, body) ==
    IF FindFont(name) = <<>>
    THEN [ret |-> [kind |-> "none"], cache |-> cache, requests |-> 0]
    ELSE LET font_file == FindFont(name)[1]
         IN IF outcome = "cache_dir_failed" /\ DOMAIN cache = {}
            THEN [ret |-> [kind |-> "err"], cache |-> cache, requests |-> 0]
            ELSE IF FileExists(cache, font_file)
                 THEN [ret |-> [kind |-> "some", path |-> FontPath(font_file),
                                was_cached |-> TRUE],
                       cache |-> cache, requests |-> 0]
                 ELSE IF outcome = "request_failed"
                      THEN [ret |-> [kind |-> "err"], cache |-> cache, requests |-> 1]
                      ELSE IF outcome = "write_failed"
                           THEN [ret |-> [kind |-> "err"], cache |-> cache,
                                 requests |-> 1]
                           ELSE IF outcome = "write_cut"
                                THEN [ret |-> [kind |-> "err"],
                                      cache |-> WriteFile(cache, font_file, ""),
                                      requests |-> 1]
                                ELSE [ret |-> [kind |-> "some",
                                               path |-> FontPath(font_file),
                                               was_cached |-> FALSE],
                                      cache |-> WriteFile(cache, font_file, body),
                                      requests |-> 1]

\* the record of a call kept in font_log
FontCall(name, cache, call) ==
    [name |-> name,
     ret |-> call.ret,
     bytes |-> IF call.ret.kind = "some" THEN call.cache[FindFont(name)[1]] ELSE "",
     requests |-> call.requests,
     cache_changed |-> call.cache # cache]

\* the cache directories a run can start with: any of the files of the
\* table, left there by an earlier run
FontCaches ==
    UNION {[D -> FontBodies] : D \in SUBSET {FONTS[k][2] : k \in 1..Len(FONTS)}}

FontsInit ==
    /\ font_cache \in FontCaches
    /\ font_log = <<>>
    /\ raw = <<>>
    /\ max_length = Delta(0, 0)
    /\ fixed = <<>>
    /\ NoMuxRun
    /\ NoCollection
    /\ d_pc = "fonts_only"
    /\ video_len = 0
    /\ events = <<>>
    /\ NoDownload
    /\ FetchIdle

\* one call of download_font
DownloadFontCall ==
    /\ d_pc = "fonts_only"
    /\ Len(font_log) < MaxFontCalls
    /\ \E name \in FontNames : \E outcome \in FontOutcomes : \E body \in FontBodies :
          LET call == download_font(name, font_cache, outcome, body)
          IN /\ font_cache' = call.cache
             /\ font_log' = Append(font_log, FontCall(name, font_cache, call))
    /\ UNCHANGED <<fvars, options, video_len, events, raw, max_length, fixed, mvars, kvars, d_pc,
                   formats, raw_audios, root_format_idx, audio_offsets, subtitle_offsets,
                   video_offset, warnings, audios, videos, pvars, rvars>>

SpecFonts == FontsInit /\ [][DownloadFontCall]_vars

\* ------------------------------------------------- the probe and the sort
\* Duration::as_secs of every segment length, summed up
RECURSIVE SumSecs(_)
SumSecs(segs) == IF segs = <<>> THEN 0 ELSE (Head(segs) \div 1000) + SumSecs(Tail(segs))

\* stream_data.bandwidth of a video and of an audio stream, in bits per second
Bandwidth(kind) == IF kind = "video" THEN 8000 ELSE 1600

\* (stream_data.bandwidth / 8) * (the seconds of the segments)
estimate_stream_data_file_size(bandwidth, segs) == (bandwidth \div 8) * SumSecs(segs)

RECURSIVE EstimatedRequiredSpace(_)
\* the estimates of the video and of every audio of every format, summed up;
\* an audio stream has the segments of the video it belongs to
EstimatedRequiredSpace(fs) ==
    IF fs = <<>>
    THEN 0
    ELSE estimate_stream_data_file_size(Bandwidth("video"), Head(fs).video)
         + Len(Head(fs).audios)
              * estimate_stream_data_file_size(Bandwidth("audio"), Head(fs).video)
         + EstimatedRequiredSpace(Tail(fs))

Abs(x) == IF x < 0 THEN -x ELSE x

\* mutant of SamePartition: never
SamePartition_never(tmp_stat, dst_stat) == FALSE

\* the two partitions are taken for one
SamePartition(tmp_stat, dst_stat) ==
    /\ tmp_stat.total = dst_stat.total
    /\ Abs(tmp_stat.available - dst_stat.available) < 10240

\* check_free_space(dst): a panic where statvfs().unwrap() fails, an Err where
\* current_dir() fails for the relative dst, else the two Options
\* tmp_required and dst_required with the estimate as the space needed.
\* A special file is given by an absolute path.
check_free_space(fs, kind, d) ==
    LET estimated_required_space == EstimatedRequiredSpace(fs)
        same == SamePartition(d.tmp, d.dst)
        tmp_space == IF same THEN d.tmp.available * 2 ELSE d.tmp.available
        dst_space == IF same THEN d.dst.available * 2 ELSE d.dst.available
    IN IF ~d.tmp.ok
       THEN [kind |-> "panic"]
       ELSE IF kind # "special" /\ ~d.cwd
            THEN [kind |-> "err"]
            ELSE IF ~d.dst.ok
                 THEN [kind |-> "panic"]
                 ELSE [kind |-> "ok",
                       tmp_required |-> tmp_space < estimated_required_space,
                       dst_required |-> /\ kind = "file"
                                        /\ dst_space < estimated_required_space,
                       need |-> estimated_required_space]

TempSpaceWarning == "You may have not enough disk space to store temporary files"
DstSpaceWarning == "You may have not enough disk space to store the output file"

\* the warnings of the probe; unwrap_or_default() turns an Err into (None, None)
ProbeWarnings(required) ==
    IF required.kind = "ok"
    THEN (IF required.tmp_required THEN {TempSpaceWarning} ELSE {})
         \cup (IF required.dst_required THEN {DstSpaceWarning} ELSE {})
    ELSE {}

\* locales.iter().position(|l| l == locale), as an Option
LocalePosition(locales, locale) ==
    IF \E k \in 1..Len(locales) : locales[k] = locale
    THEN <<(CHOOSE k \in 1..Len(locales) :
               /\ locales[k] = locale
               /\ \A l \in 1..(k - 1) : locales[l] # locale) - 1>>
    ELSE <<>>

\* Option<usize>::cmp(a, b) is Less: None is less than every Some
OptionLess(a, b) == IF a = <<>> THEN b # <<>> ELSE b # <<>> /\ a[1] < b[1]

RECURSIVE InsertByKey(_, _)
\* e goes in front of the first entry that is greater than it
InsertByKey(sorted, e) ==
    IF sorted = <<>>
    THEN <<e>>
    ELSE IF OptionLess(e.key, Head(sorted).key)
         THEN <<e>> \o sorted
         ELSE <<Head(sorted)>> \o InsertByKey(Tail(sorted), e)

RECURSIVE SortByKey(_, _)
\* slice::sort_by, a stable sort
SortByKey(entries, sorted) ==
    IF entries = <<>>
    THEN sorted
    ELSE SortByKey(Tail(entries), InsertByKey(sorted, Head(entries)))

\* xs.sort_by(|a, b| position(locale of a).cmp(&position(locale of b))):
\* positions[k] is the position of the locale of xs[k]
sort_by_position(xs, positions) ==
    LET keyed == [k \in 1..Len(xs) |-> [key |-> positions[k], value |-> xs[k]]]
        sorted == SortByKey(keyed, <<>>)
    IN [k \in 1..Len(xs) |-> sorted[k].value]

\* self.formats and the audios of every format after the sort by audio_sort;
\* subtitle_sort is None
SortedFormats(fs, sort) ==
    IF sort = <<>>
    THEN fs
    ELSE LET sorted == sort_by_position(fs,
                 [k \in 1..Len(fs) |-> LocalePosition(sort[1], fs[k].locale)])
         IN [k \in 1..Len(fs) |->
                [sorted[k] EXCEPT
                    !.audios = sort_by_position(@,
                        [a \in 1..Len(@) |-> LocalePosition(sort[1], @[a])])]]

\* --------------------------------------------------- the steps of a run
\* the name of the k-th fallible operation of a kind
Op(kind, k) == kind \o ToString(k)

\* mutant of Release: the files stay
Release_none(files) == files

\* the TempPath handles go out of scope: their files are deleted
Release(files) == {}

\* `?` on an Err: download() returns the error, its locals are dropped
Fail(op) ==
    /\ d_pc' = "failed"
    /\ ret' = <<op>>
    /\ temp_files' = Release(temp_files)
    /\ steps' = Append(steps, "failed")
    /\ UNCHANGED mux_spawned

\* a panic: the locals are dropped where the build unwinds, not where it aborts
Panic ==
    /\ d_pc' = "panic"
    /\ steps' = Append(steps, "panic")
    /\ \E unwinds \in BOOLEAN :
          temp_files' = IF unwinds THEN Release(temp_files) ELSE temp_files
    /\ UNCHANGED <<ret, mux_spawned>>

\* a step that went well: download() goes on at next, owning these new files
Step(name, next, files) ==
    /\ d_pc' = next
    /\ steps' = Append(steps, name)
    /\ temp_files' = temp_files \cup files
    /\ UNCHANGED <<ret, mux_spawned>>

\* the fonts get_subtitle_stats finds in a subtitle file
get_subtitle_stats(meta) ==
    IF meta.cc
    THEN <<"Arial", "Helvetica">>
    ELSE IF meta.locale = LocaleOf(1) THEN <<"Arial", "Webdings">> ELSE <<"Arial">>

RECURSIVE real_dedup_vec(_)
\* every name once, at its first place
real_dedup_vec(names) ==
    IF names = <<>>
    THEN <<>>
    ELSE LET front == real_dedup_vec(SubSeq(names, 1, Len(names) - 1))
             last == names[Len(names)]
         IN IF \E k \in 1..Len(front) : front[k] = last
            THEN front
            ELSE Append(front, last)

\* font_names
FontNamesOf(ss) ==
    real_dedup_vec(Flatten([k \in 1..Len(ss) |-> get_subtitle_stats(ss[k])]))

\* mutant of FontsWanted: the fonts are never downloaded
FontsWanted_never == FALSE

\* if self.download_fonts && !self.force_hardsub && dst.extension() == "mkv"
FontsWanted == download_fonts /\ ~force_hardsub /\ dst_extension = "mkv"

\* the probe of the free space with its warnings, then the sort of the formats
Prepare ==
    /\ d_pc = "start"
    /\ LET required == check_free_space(formats, dst_kind, disk)
       IN IF required.kind = "panic"
          THEN Panic /\ UNCHANGED <<formats, warnings>>
          ELSE /\ warnings' = warnings \cup ProbeWarnings(required)
               /\ formats' = SortedFormats(formats, audio_sort)
               /\ Step("probe", "audios", {})
    /\ UNCHANGED <<fvars, options, cvars, raw_audios, root_format_idx, audio_offsets,
                   subtitle_offsets, video_offset, audios, videos, pvars, fonts>>

\* one pass of the loop that downloads all audios
DownloadAudio ==
    /\ d_pc = "audios"
    /\ Len(raw_audios) < Len(AllAudios(formats, 0))
    /\ LET op == Op("audio", Len(raw_audios))
           audio == AllAudios(formats, 0)[Len(raw_audios) + 1]
       IN IF op \in fails
          THEN Fail(op) /\ UNCHANGED raw_audios
          ELSE /\ raw_audios' = Append(raw_audios, audio)
               /\ Step("audio", "audios", {audio.path})
    /\ UNCHANGED <<fvars, options, cvars, formats, root_format_idx, audio_offsets,
                   subtitle_offsets, video_offset, warnings, audios, videos, pvars, fonts>>

\* mutant of SyncEligible: the aligner runs whatever was added
SyncEligible_always == TRUE

\* if self.formats.len() > 1 && self.merge_sync_tolerance.is_some()
SyncEligible == Len(formats) > 1 /\ merge_sync_tolerance # <<>>

\* mutant of ClearSkipEvents: the skip events are kept
ClearSkipEvents_kept(format) == format

\* format.metadata.skip_events = None
ClearSkipEvents(format) == [format EXCEPT !.skip_events = <<>>]

\* mutant of WarnNoSyncPositions: the warning does not look at offset_pre_checked
WarnNoSyncPositions_always(offset_pre_checked) == TRUE

\* if !offset_pre_checked { warn!("Couldn't find reliable sync positions") }
WarnNoSyncPositions(offset_pre_checked) == ~offset_pre_checked

\* The block after the audio downloads: sync_audios, the sanity check of its
\* offsets, then either the selection of the root and the merge into it, or
\* the clearing of the skip events.
SyncFormats ==
    /\ d_pc = "audios"
    /\ Len(raw_audios) = Len(AllAudios(formats, 0))
    /\ IF ~SyncEligible
       THEN /\ Step("no_align", "audio_meta", {})
            /\ UNCHANGED <<formats, raw_audios, root_format_idx, audio_offsets,
                           subtitle_offsets, video_offset, warnings>>
       ELSE IF "sync" \in fails
       THEN /\ Fail("sync")
            /\ UNCHANGED <<formats, raw_audios, root_format_idx, audio_offsets,
                           subtitle_offsets, video_offset, warnings>>
       ELSE LET offset_pre_checked ==
                    sync_result # <<>> /\ SanityRejects(formats, sync_result[1])
                offsets == IF offset_pre_checked THEN <<>> ELSE sync_result
            IN IF offsets # <<>>
               THEN IF overflow_checks
                       /\ \E i \in 0..(Len(formats) - 1) :
                              FormatLenOverflows(formats[i + 1], offsets[1], i)
                    THEN /\ Panic
                         /\ UNCHANGED <<formats, raw_audios, root_format_idx, audio_offsets,
                                        subtitle_offsets, video_offset, warnings>>
                    ELSE LET root == SelectRoot(formats, offsets[1])
                         IN /\ root_format_idx' = <<root>>
                            /\ audio_offsets' = OffsetsFor(formats, offsets[1], "audios")
                            /\ subtitle_offsets' = OffsetsFor(formats, offsets[1], "subtitles")
                            /\ formats' = <<Merge(formats, root)>>
                            /\ video_offset' = MapGet(offsets[1], root)
                            /\ raw_audios' = [k \in 1..Len(raw_audios) |->
                                                 [raw_audios[k] EXCEPT !.video_idx = root]]
                            /\ Step("align", "audio_meta", {})
                            /\ UNCHANGED warnings
               ELSE /\ formats' = [k \in 1..Len(formats) |-> ClearSkipEvents(formats[k])]
                    /\ warnings' = warnings
                          \cup (IF offset_pre_checked
                                THEN {"Found difference of >15 seconds after sync, so the application was skipped"}
                                ELSE {})
                          \cup (IF WarnNoSyncPositions(offset_pre_checked)
                                THEN {"Couldn't find reliable sync positions"}
                                ELSE {})
                    /\ Step("align", "audio_meta", {})
                    /\ UNCHANGED <<raw_audios, root_format_idx, audio_offsets,
                                   subtitle_offsets, video_offset>>
    /\ UNCHANGED <<fvars, options, cvars, audios, videos, pvars, fonts>>

\* add audio metadata
AddAudioMeta ==
    /\ d_pc = "audio_meta"
    /\ audios' = [k \in 1..Len(raw_audios) |->
                     [path |-> raw_audios[k].path,
                      locale |-> raw_audios[k].locale,
                      start_time |-> MapGet(audio_offsets, raw_audios[k].format_id),
                      video_idx |-> raw_audios[k].video_idx]]
    /\ Step("audio_meta", "videos", {})
    /\ UNCHANGED <<fvars, options, cvars, formats, raw_audios, root_format_idx, audio_offsets,
                   subtitle_offsets, video_offset, warnings, videos, pvars, fonts>>

\* one pass of the loop that downloads all videos
DownloadVideo ==
    /\ d_pc = "videos"
    /\ Len(videos) < Len(formats)
    /\ LET op == Op("video", Len(videos))
           path == VideoPath(formats[Len(videos) + 1].id)
       IN IF op \in fails
          THEN Fail(op) /\ UNCHANGED videos
          ELSE /\ videos' = Append(videos,
                                   [path |-> path,
                                    length |-> SumMillis(formats[Len(videos) + 1].video),
                                    start_time |-> video_offset])
               /\ Step("video",
                       IF Len(videos) + 1 = Len(formats) THEN "subtitles" ELSE "videos",
                       {path})
    /\ UNCHANGED <<fvars, options, cvars, formats, raw_audios, root_format_idx, audio_offsets,
                   subtitle_offsets, video_offset, warnings, audios, pvars, fonts>>

\* one pass of the loop that downloads the subtitles of all formats
DownloadSubtitle ==
    /\ d_pc = "subtitles"
    /\ Len(subtitles) < Len(AllSubtitles(formats, no_closed_caption))
    /\ LET op == Op("subtitle", Len(subtitles))
           s == AllSubtitles(formats, no_closed_caption)[Len(subtitles) + 1]
       IN IF op \in fails
          THEN Fail(op) /\ UNCHANGED subtitles
          ELSE /\ subtitles' = Append(subtitles,
                                      [path |-> SubtitlePath(s.i, s.j),
                                       locale |-> s.locale,
                                       cc |-> s.cc,
                                       start_time |-> MapGet(subtitle_offsets, s.j),
                                       video_idx |-> s.i,
                                       owner |-> s.owner])
               /\ Step("subtitle", "subtitles", {SubtitlePath(s.i, s.j)})
    /\ UNCHANGED <<fvars, options, cvars, formats, raw_audios, root_format_idx,
                   audio_offsets, subtitle_offsets, video_offset, warnings, audios, videos,
                   chapters, sidecar, input, maps, output_presets, command_args, fonts>>

\* the loop that collects the chapters of the formats with skip events, and
\* the test whether fonts are to be downloaded
CollectChapters ==
    /\ d_pc = "subtitles"
    /\ Len(subtitles) = Len(AllSubtitles(formats, no_closed_caption))
    /\ chapters' = CollectedChapters(formats)
    /\ Step("chapters",
            IF FontsWanted /\ FontNamesOf(subtitles) # <<>> THEN "fonts" ELSE "plan",
            IF CollectedChapters(formats) # <<>> THEN {ChapterPath} ELSE {})
    /\ UNCHANGED <<fvars, options, cvars, formats, raw_audios, root_format_idx,
                   audio_offsets, subtitle_offsets, video_offset, warnings, audios, videos,
                   subtitles, sidecar, input, maps, output_presets, command_args, fonts>>

\* one pass of the loop over font_names: the font server answers, unless the
\* request is one that fails
DownloadFont ==
    /\ d_pc = "fonts"
    /\ LET font_names == FontNamesOf(subtitles)
           k == Len(font_log)
           op == Op("font", k)
           call == download_font(font_names[k + 1], font_cache,
                                 IF op \in fails THEN "request_failed" ELSE "ok",
                                 "woff2 a")
       IN /\ font_cache' = call.cache
          /\ font_log' = Append(font_log, FontCall(font_names[k + 1], font_cache, call))
          /\ IF call.ret.kind = "err"
             THEN Fail(op) /\ UNCHANGED fonts
             ELSE /\ fonts' = IF call.ret.kind = "some"
                              THEN Append(fonts, call.ret.path)
                              ELSE fonts
                  /\ Step("font", IF k + 1 = Len(font_names) THEN "plan" ELSE "fonts", {})
    /\ UNCHANGED <<fvars, options, video_len, events, raw, max_length, fixed, mvars, kvars, formats,
                   raw_audios, root_format_idx, audio_offsets, subtitle_offsets,
                   video_offset, warnings, audios, videos, pvars>>

\* -attach <font> for every font
Attachments(fs) == Flatten([k \in 1..Len(fs) |-> <<"-attach", fs[k]>>])

\* mutant of FontMetadata: the attachments are counted from 1
FontMetadata_oneBased(fs) ==
    Flatten([k \in 1..Len(fs) |-> <<"-metadata:s:t:" \o ToString(k), "mimetype=font/woff2">>])

\* -metadata:s:t:<i> mimetype=font/woff2 for every font
FontMetadata(fs) ==
    Flatten([k \in 1..Len(fs) |->
        <<"-metadata:s:t:" \o ToString(k - 1), "mimetype=font/woff2">>])

\* The argument vector of the multiplexer. ffmpeg_threads and output_format
\* are None, the locale output maps are empty and the preset has no input
\* arguments.
AssemblePlan ==
    /\ d_pc = "plan"
    /\ LET soft == ContainerSupportsSoftsubs(force_hardsub, dst_extension)
           soft_subtitles == IF soft THEN subtitles ELSE <<>>
           new_input == AllInputArgs(videos)
                        \o AllInputArgs(audios)
                        \o AllInputArgs(soft_subtitles)
                        \o (IF chapters # <<>> THEN <<"-i", ChapterPath>> ELSE <<>>)
           new_maps == MapArgs(Len(videos), 0)
                       \o MapArgs(Len(audios), Len(videos))
                       \o MapArgs(Len(soft_subtitles), Len(videos) + Len(audios))
                       \o (IF chapters # <<>>
                           THEN <<"-map_metadata",
                                  ToString(Len(videos) + Len(audios) + Len(soft_subtitles))>>
                           ELSE <<>>)
           metadata == VideoMetadata(videos)
                       \o AudioMetadata(audios, videos)
                       \o FontMetadata(fonts)
                       \o SubtitleMetadata(soft_subtitles, videos)
           new_output == OutputPresets(ffmpeg_preset, subtitles, default_subtitle, soft,
                                       dst_extension)
       IN /\ sidecar' = IF chapters # <<>>
                        THEN write_ffmpeg_chapters(MaxLength(videos), chapters[1])
                        ELSE <<>>
          /\ input' = new_input
          /\ maps' = new_maps
          /\ output_presets' = new_output
          /\ command_args' = <<"-y", "-hide_banner", "-vstats_file", FifoPath>>
                             \o new_input
                             \o new_maps
                             \o Attachments(fonts)
                             \o metadata
                             \o DefaultDisposition(subtitles, default_subtitle, soft)
                             \o ForcedDispositions(subtitles)
                             \o new_output
                             \o <<"./" \o DstPath(dst_extension)>>
    /\ Step("plan", "planned", {FifoPath})
    /\ UNCHANGED <<fvars, options, cvars, formats, raw_audios, root_format_idx,
                   audio_offsets, subtitle_offsets, video_offset, warnings, audios, videos,
                   subtitles, chapters, fonts>>

\* mutant of Spawned: two processes
Spawned_twice(n) == n + 2

\* one more multiplexer process
Spawned(n) == n + 1

\* Command::new("ffmpeg")...spawn()?
SpawnMux ==
    /\ d_pc = "planned"
    /\ IF "spawn" \in fails
       THEN Fail("spawn")
       ELSE /\ mux_spawned' = Spawned(mux_spawned)
            /\ d_pc' = "muxing"
            /\ steps' = Append(steps, "spawn")
            /\ UNCHANGED <<temp_files, ret>>
    /\ UNCHANGED <<fvars, options, cvars, formats, raw_audios, root_format_idx,
                   audio_offsets, subtitle_offsets, video_offset, warnings, audios, videos,
                   pvars, fonts>>

\* ffmpeg.wait_with_output()?, the test of its exit status, and the return
WaitMux ==
    /\ d_pc = "muxing"
    /\ IF "mux" \in fails
       THEN Fail("mux")
       ELSE /\ d_pc' = "done"
            /\ ret' = <<"ok">>
            /\ steps' = Append(steps, "wait")
            /\ temp_files' = Release(temp_files)
            /\ UNCHANGED mux_spawned
    /\ UNCHANGED <<fvars, options, cvars, formats, raw_audios, root_format_idx,
                   audio_offsets, subtitle_offsets, video_offset, warnings, audios, videos,
                   pvars, fonts>>

DownloadNext ==
    \/ Prepare
    \/ DownloadAudio
    \/ SyncFormats
    \/ AddAudioMeta
    \/ DownloadVideo
    \/ DownloadSubtitle
    \/ CollectChapters
    \/ DownloadFont
    \/ AssemblePlan
    \/ SpawnMux
    \/ WaitMux

SpecDownload == DownloadInit /\ [][DownloadNext]_vars

SpecPlan == PlanInit /\ [][DownloadNext]_vars

SpecPresets == PresetInit /\ [][DownloadNext]_vars

\* ------------------------------------------ runs with hard errors
\* the operations that can be made to fail: the first fetches of every kind,
\* the aligner, the spawn of the multiplexer and the multiplexer itself
FallibleOps ==
    {Op(kind, k) : kind \in {"audio", "video", "subtitle", "font"},
                   k \in 0..(MaxRunVariants - 1)}
    \cup {"sync", "spawn", "mux"}

\* Runs of variants of the same length with a subtitle and skip events each,
\* that differ in the options that decide which steps are taken and in the
\* operations that fail: none, one or two of them.
RunInit ==
    /\ \E n \in 1..MaxRunVariants :
          /\ added = [k \in 1..n |-> MkFormat(k - 1, <<12000, 12000>>)]
          /\ sync_result \in {<<>>, <<[i \in 0..(n - 1) |-> 0]>>}
    /\ merge_sync_tolerance \in {<<>>, <<6>>}
    /\ merge_sync_tolerance = <<>> => sync_result = <<>>
    /\ overflow_checks = FALSE
    /\ force_hardsub \in BOOLEAN
    /\ dst_extension \in {"mkv", "mp4"}
    /\ default_subtitle = <<>>
    /\ no_closed_caption = FALSE
    /\ ffmpeg_preset = DefaultPreset
    /\ audio_sort = <<>>
    /\ download_fonts \in BOOLEAN
    /\ dst_kind = "file"
    /\ disk = AmpleDisk
    /\ fails \in {f \in SUBSET FallibleOps : Cardinality(f) <= 2}
    /\ DownloadLocals

SpecRun == RunInit /\ [][DownloadNext]_vars

\* ------------------------- the run of the multiplexer and ffmpeg_progress
\* The end of download(), from the spawn of the child process and of the
\* progress task on, and the progress task itself, on their own.

\* what a read of the next line of the FIFO can give: a stats line with a
\* frame number, a line without `frame=\s+\d+`, a line whose frame number does
\* not fit into a u64, and a read error
FifoItems ==
    {[kind |-> "frame", n |-> n] : n \in {1, 4}}
    \cup {[kind |-> k, n |-> 0] : k \in {"nomatch", "overflow", "read_err"}}

\* the contents of the FIFO: at most n lines
FifoContents(n) == UNION {[1..k -> FifoItems] : k \in 0..n}

\* the child process and the progress task were spawned, download() is about
\* to wait for the child
MuxInit ==
    /\ wait_outcome \in {"success", "nonzero", "io_error"}
    /\ fifo \in FifoContents(MaxFifoLines)
    /\ eof_comes \in BOOLEAN
    /\ total_frames \in {0, 3}
    /\ m_pc = "wait"
    /\ child_awaited = FALSE
    /\ token = FALSE
    /\ p_pc = "select"
    /\ frame = 0
    /\ bar \in {<<>>, <<0>>}
    /\ m_ret = <<>>
    /\ font_cache = [f \in {} |-> ""]
    /\ font_log = <<>>
    /\ raw = <<>>
    /\ max_length = Delta(0, 0)
    /\ fixed = <<>>
    /\ d_pc = "mux_only"
    /\ NoCollection
    /\ video_len = 0
    /\ events = <<>>
    /\ NoDownload
    /\ FetchIdle

\* mutant of SetPosition: the bar is left where it is
SetPosition_kept(b, position) == b

\* if let Some(p) = &progress { p.set_position(position) }
SetPosition(b, position) == IF b = <<>> THEN b ELSE <<position>>

\* JoinHandle::abort(): a task that has not finished is cancelled
Abort(task) == IF task = "select" THEN "aborted" ELSE task

\* the end of ffmpeg_progress behind the loop: the bar is set to 100% if the
\* last frame read is short of the total, and Ok(()) is returned
LeaveLoop ==
    /\ bar' = IF frame < total_frames THEN SetPosition(bar, total_frames) ELSE bar
    /\ p_pc' = "ok"
    /\ UNCHANGED frame

\* select!: cancellation_token.cancelled() is ready
ProgressCancelled ==
    /\ p_pc = "select"
    /\ token
    /\ LeaveLoop
    /\ UNCHANGED <<fvars, options, video_len, events, font_cache, font_log, raw, max_length,
                   fixed, wait_outcome, fifo, eof_comes, total_frames, m_pc, child_awaited,
                   token, m_ret, d_pc, formats, raw_audios, root_format_idx, audio_offsets,
                   subtitle_offsets, video_offset, warnings, audios, videos, pvars, rvars, kvars>>

\* select!: lines.next_line() is ready with a line or with an error
ProgressLine ==
    /\ p_pc = "select"
    /\ fifo # <<>>
    /\ fifo' = Tail(fifo)
    /\ LET line == Head(fifo)
       IN IF line.kind = "frame"
          THEN /\ frame' = line.n
               /\ bar' = SetPosition(bar, line.n)
               /\ UNCHANGED p_pc
          ELSE IF line.kind = "nomatch"
          THEN LeaveLoop
          ELSE /\ p_pc' = IF line.kind = "overflow" THEN "parse_failed" ELSE "read_failed"
               /\ UNCHANGED <<frame, bar>>
    /\ UNCHANGED <<fvars, options, video_len, events, font_cache, font_log, raw, max_length,
                   fixed, wait_outcome, eof_comes, total_frames, m_pc, child_awaited,
                   token, m_ret, d_pc, formats, raw_audios, root_format_idx, audio_offsets,
                   subtitle_offsets, video_offset, warnings, audios, videos, pvars, rvars, kvars>>

\* select!: lines.next_line() is ready with None, the end of the FIFO
ProgressEof ==
    /\ p_pc = "select"
    /\ fifo = <<>>
    /\ eof_comes
    /\ LeaveLoop
    /\ UNCHANGED <<fvars, options, video_len, events, font_cache, font_log, raw, max_length,
                   fixed, wait_outcome, fifo, eof_comes, total_frames, m_pc, child_awaited,
                   token, m_ret, d_pc, formats, raw_audios, root_format_idx, audio_offsets,
                   subtitle_offsets, video_offset, warnings, audios, videos, pvars, rvars, kvars>>

\* ffmpeg.wait_with_output()?, the test of the exit status, and
\* ffmpeg_progress_cancel.cancel()
WaitOutput ==
    /\ m_pc = "wait"
    /\ IF wait_outcome = "io_error"
       THEN /\ m_pc' = "returned"
            /\ m_ret' = <<"wait_failed">>
            /\ UNCHANGED <<child_awaited, token, p_pc>>
       ELSE IF wait_outcome = "nonzero"
       THEN /\ child_awaited' = TRUE
            /\ p_pc' = Abort(p_pc)
            /\ m_pc' = "returned"
            /\ m_ret' = <<"stderr">>
            /\ UNCHANGED token
       ELSE /\ child_awaited' = TRUE
            /\ token' = TRUE
            /\ m_pc' = "await"
            /\ UNCHANGED <<p_pc, m_ret>>
    /\ UNCHANGED <<fvars, options, video_len, events, font_cache, font_log, raw, max_length,
                   fixed, wait_outcome, fifo, eof_comes, total_frames, frame, bar,
                   d_pc, formats, raw_audios, root_format_idx, audio_offsets,
                   subtitle_offsets, video_offset, warnings, audios, videos, pvars, rvars, kvars>>

\* ffmpeg_progress.await?: the result of the progress task is the result of
\* download()
AwaitProgress ==
    /\ m_pc = "await"
    /\ p_pc \in {"ok", "parse_failed", "read_failed"}
    /\ m_pc' = "returned"
    /\ m_ret' = IF p_pc = "ok" THEN <<"ok">> ELSE <<"progress_failed">>
    /\ UNCHANGED <<fvars, options, video_len, events, font_cache, font_log, raw, max_length,
                   fixed, wait_outcome, fifo, eof_comes, total_frames, child_awaited, token,
                   p_pc, frame, bar, d_pc, formats, raw_audios, root_format_idx,
                   audio_offsets, subtitle_offsets, video_offset, warnings, audios, videos,
                   pvars, rvars, kvars>>

MuxNext ==
    \/ ProgressCancelled
    \/ ProgressLine
    \/ ProgressEof
    \/ WaitOutput
    \/ AwaitProgress

SpecMux == MuxInit /\ [][MuxNext]_vars

\* the progress task is polled while it can go on: it is a spawned task of
\* the runtime, and select! polls both of its branches
FairSpecMux == SpecMux /\ WF_vars(ProgressCancelled) /\ WF_vars(AwaitProgress)

\* ------------------------------- the collection of the formats (format.rs)
\* the keys a node of the standard library's BTreeMap holds: 2 * B - 1, B = 6
NodeCapacity == 11
KvIdxCenter == (NodeCapacity - 1) \div 2

\* a SingleFormat, as far as the collection reads it
SingleFormat(season_number, season_id, sequence_number) ==
    [season_number |-> season_number, season_id |-> season_id,
     sequence_number |-> sequence_number]

\* the Vec<SingleFormat> of one call, named by the key of its first format
GroupOf(format) == <<format.season_number, format.season_id, format.sequence_number>>

\* the formats of MaxSeasons seasons which all carry the season number 1
ManySeasons(n) == [i \in 1..n |-> SingleFormat(1, i, 1)]

\* further formats: an episode before and one behind those of ManySeasons, of
\* the first of these seasons or of another season
MoreFormats == {SingleFormat(number, id, seq) : number \in {1, 2}, id \in {0, 1}, seq \in {0, 2}}

\* the sequences of at most n of these formats, no format twice
MoreCalls(n) ==
    {s \in UNION {[1..k -> MoreFormats] : k \in 0..n} :
        \A i, j \in 1..Len(s) : i # j => s[i] # s[j]}

\* SingleFormatCollectionSeasonKey::cmp on keys (season_number, season_id)
SeasonKeyCmp(self, other) ==
    LET cmp == IF self[1] < other[1] THEN "Less"
               ELSE IF self[1] > other[1] THEN "Greater"
               ELSE "Equal"
    IN IF cmp = "Equal" /\ self[2] # other[2]
       THEN "Greater"      \* first come first serve
       ELSE cmp

\* the search of a node for a key: the keys of the node are compared from the
\* left, Greater goes on, Equal finds the key, Less stops at this edge
FindKeyIndex(node, key) ==
    LET stops == {i \in 1..Len(node) : SeasonKeyCmp(key, node[i].key) # "Greater"}
    IN IF stops = {}
       THEN [found |-> FALSE, idx |-> Len(node)]
       ELSE [found |-> SeasonKeyCmp(key, node[SetMin(stops)].key) = "Equal",
             idx |-> SetMin(stops) - 1]

\* episodes.insert(SingleFormatCollectionEpisodeKey(sequence_number), group):
\* the inner map is ordered by f32::total_cmp, an equal key is replaced
EpisodeInsert(episodes, ep) ==
    SelectSeq(episodes, LAMBDA x : x.sequence_number < ep.sequence_number)
        \o <<ep>>
        \o SelectSeq(episodes, LAMBDA x : x.sequence_number > ep.sequence_number)

InsertAt(s, idx, e) == SubSeq(s, 1, idx) \o <<e>> \o SubSeq(s, idx + 1, Len(s))

\* where a full node is split when a key enters at edge_idx
SplitPoint(edge_idx) ==
    IF edge_idx < KvIdxCenter
    THEN [middle |-> KvIdxCenter - 1, left |-> TRUE, at |-> edge_idx]
    ELSE IF edge_idx = KvIdxCenter
    THEN [middle |-> KvIdxCenter, left |-> TRUE, at |-> edge_idx]
    ELSE IF edge_idx = KvIdxCenter + 1
    THEN [middle |-> KvIdxCenter, left |-> FALSE, at |-> 0]
    ELSE [middle |-> KvIdxCenter + 1, left |-> FALSE, at |-> edge_idx - (KvIdxCenter + 2)]

\* the insertion of a season into a leaf, which splits a full leaf
LeafInsert(leaf, idx, e) ==
    IF Len(leaf) < NodeCapacity
    THEN [left |-> InsertAt(leaf, idx, e), split |-> <<>>]
    ELSE LET sp == SplitPoint(idx)
             l == SubSeq(leaf, 1, sp.middle)
             r == SubSeq(leaf, sp.middle + 2, Len(leaf))
         IN [left |-> IF sp.left THEN InsertAt(l, sp.at, e) ELSE l,
             split |-> <<[kv |-> leaf[sp.middle + 1],
                          right |-> IF sp.left THEN r ELSE InsertAt(r, sp.at, e)]>>]

\* the map of the seasons: the keys of its root and, below a root that is no
\* leaf, the leaves between them
EmptyMap == [keys |-> <<>>, edges |-> <<>>]

\* self.0.entry(key).or_default().insert(episode key, group)
EntryInsert(map, key, ep) ==
    LET top == FindKeyIndex(map.keys, key)
        season == [key |-> key, episodes |-> <<ep>>]
        c == top.idx + 1
    IN IF top.found
       THEN [map EXCEPT !.keys[c].episodes = EpisodeInsert(@, ep)]
       ELSE IF map.edges = <<>>
       THEN LET ins == LeafInsert(map.keys, top.idx, season)
            IN IF ins.split = <<>>
               THEN [map EXCEPT !.keys = ins.left]
               ELSE [keys |-> <<ins.split[1].kv>>,
                     edges |-> <<ins.left, ins.split[1].right>>]
       ELSE LET low == FindKeyIndex(map.edges[c], key)
                ins == LeafInsert(map.edges[c], low.idx, season)
            IN IF low.found
               THEN [map EXCEPT !.edges[c][low.idx + 1].episodes = EpisodeInsert(@, ep)]
               ELSE IF ins.split = <<>>
               THEN [map EXCEPT !.edges[c] = ins.left]
               ELSE [keys |-> InsertAt(map.keys, top.idx, ins.split[1].kv),
                     edges |-> SubSeq(map.edges, 1, c - 1)
                                   \o <<ins.left, ins.split[1].right>>
                                   \o SubSeq(map.edges, c + 1, Len(map.edges))]

\* the seasons of the map from the left to the right
RECURSIVE InOrderFrom(_, _)
InOrderFrom(map, c) ==
    IF c > Len(map.edges)
    THEN <<>>
    ELSE map.edges[c]
             \o (IF c <= Len(map.keys) THEN <<map.keys[c]>> ELSE <<>>)
             \o InOrderFrom(map, c + 1)

InOrder(map) == IF map.edges = <<>> THEN map.keys ELSE InOrderFrom(map, 1)

\* an empty collection and the calls that are going to be made on it
CollectionInit ==
    /\ calls \in {ManySeasons(n) \o more : n \in 0..MaxSeasons, more \in MoreCalls(MaxAdds)}
    /\ calls_done = 0
    /\ k_pc = "adding"
    /\ collection = EmptyMap
    /\ remaining = <<>>
    /\ yielded = <<>>
    /\ NoMuxRun
    /\ font_cache = [f \in {} |-> ""]
    /\ font_log = <<>>
    /\ raw = <<>>
    /\ max_length = Delta(0, 0)
    /\ fixed = <<>>
    /\ d_pc = "collection_only"
    /\ video_len = 0
    /\ events = <<>>
    /\ NoDownload
    /\ FetchIdle

\* SingleFormatCollection::add_single_formats
AddSingleFormats ==
    /\ k_pc = "adding"
    /\ calls_done < Len(calls)
    /\ LET format == calls[calls_done + 1]
       IN collection' =
              EntryInsert(collection,
                          <<format.season_number, format.season_id>>,
                          [sequence_number |-> format.sequence_number,
                           group |-> GroupOf(format)])
    /\ calls_done' = calls_done + 1
    /\ UNCHANGED <<fvars, options, video_len, events, font_cache, font_log, raw, max_length,
                   fixed, mvars, calls, k_pc, remaining, yielded, d_pc, formats, raw_audios,
                   root_format_idx, audio_offsets, subtitle_offsets, video_offset, warnings,
                   audios, videos, pvars, rvars>>

\* SingleFormatCollection::into_iter: the iterator owns the map, and walks it
\* from the left without a comparison of keys
IntoIter ==
    /\ k_pc = "adding"
    /\ calls_done = Len(calls)
    /\ k_pc' = "iterating"
    /\ remaining' = InOrder(collection)
    /\ UNCHANGED <<fvars, options, video_len, events, font_cache, font_log, raw, max_length,
                   fixed, mvars, calls, calls_done, collection, yielded, d_pc, formats,
                   raw_audios, root_format_idx, audio_offsets, subtitle_offsets, video_offset,
                   warnings, audios, videos, pvars, rvars>>

\* SingleFormatCollectionIterator::next
IterNext ==
    /\ k_pc = "iterating"
    /\ IF remaining = <<>>
       THEN /\ k_pc' = "done"
            /\ UNCHANGED <<remaining, yielded>>
       ELSE LET episodes == Head(remaining).episodes
            IN /\ yielded' = Append(yielded, Head(episodes).group)
               /\ remaining' = IF Tail(episodes) = <<>>
                               THEN Tail(remaining)
                               ELSE <<[Head(remaining) EXCEPT !.episodes = Tail(episodes)]>>
                                        \o Tail(remaining)
               /\ UNCHANGED k_pc
    /\ UNCHANGED <<fvars, options, video_len, events, font_cache, font_log, raw, max_length,
                   fixed, mvars, calls, calls_done, collection, d_pc, formats, raw_audios,
                   root_format_idx, audio_offsets, subtitle_offsets, video_offset, warnings,
                   audios, videos, pvars, rvars>>

CollectionNext ==
    \/ AddSingleFormats
    \/ IntoIter
    \/ IterNext

SpecCollection == CollectionInit /\ [][CollectionNext]_vars

\* ------------------------------------------- the sort of the formats
\* the audio locales a variant of these runs can have
AudioLists == {<<"de-DE", "ja-JP">>, <<"fr-FR", "en-US", "ja-JP", "de-DE">>}

\* the preference lists: de-DE and fr-FR are in none of them
SortLists == {<<>>, <<"ja-JP">>, <<"en-US">>, <<"ja-JP", "en-US">>, <<"en-US", "ja-JP">>}

\* Runs of the first step of download() that differ in the video locales and
\* the audio locales of the variants and in the preference list.
SortInit ==
    /\ \E n \in 1..MaxSortVariants :
       \E l \in [1..n -> {"ja-JP", "en-US", "de-DE"}] : \E a \in [1..n -> AudioLists] :
          added = [k \in 1..n |->
                      [Format(k - 1, <<12000, 12000>>, <<>>, <<>>) EXCEPT
                          !.locale = l[k], !.audios = a[k]]]
    /\ audio_sort \in {<<>>} \cup {<<s>> : s \in SortLists}
    /\ sync_result = <<>>
    /\ merge_sync_tolerance = <<>>
    /\ overflow_checks = FALSE
    /\ force_hardsub = FALSE
    /\ dst_extension = "mkv"
    /\ default_subtitle = <<>>
    /\ no_closed_caption = FALSE
    /\ ffmpeg_preset = DefaultPreset
    /\ download_fonts = FALSE
    /\ dst_kind = "file"
    /\ disk = AmpleDisk
    /\ fails = {}
    /\ DownloadLocals

SpecSort == SortInit /\ [][Prepare]_vars

\* ------------------------------------------------ the probe on its own
\* the bytes statvfs can report as available, around the estimate of 28800
\* bytes for one variant of 24 s, and as the size of a partition
FreeSpaces == {0, 14000, 20000, 28800, 40000, 60000}
TotalSpaces == {100000, 200000}

\* what the probe can find
Disks ==
    {[tmp |-> Stat(ok[1], t[1], a[1]), dst |-> Stat(ok[2], t[2], a[2]), cwd |-> ok[3]] :
        ok \in BOOLEAN \X BOOLEAN \X BOOLEAN,
        t \in TotalSpaces \X TotalSpaces,
        a \in FreeSpaces \X FreeSpaces}

\* Runs of the first step of download() that differ in the destination and
\* in what the probe finds.
ProbeInit ==
    /\ added = <<MkFormat(0, <<12000, 12000>>)>>
    /\ dst_kind \in {"file", "stdout", "special"}
    /\ dst_extension = IF dst_kind = "file" THEN "mkv" ELSE ""
    /\ disk \in Disks
    /\ audio_sort = <<>>
    /\ sync_result = <<>>
    /\ merge_sync_tolerance = <<>>
    /\ overflow_checks = FALSE
    /\ force_hardsub = FALSE
    /\ default_subtitle = <<>>
    /\ no_closed_caption = FALSE
    /\ ffmpeg_preset = DefaultPreset
    /\ download_fonts = FALSE
    /\ fails = {}
    /\ DownloadLocals

SpecProbe == ProbeInit /\ [][Prepare]_vars

\* ------------------------------------------- fix_subtitles on its own
\* A time as it is written in a line: the hours, minutes and seconds as whole
\* seconds, and the digits behind the dot as a number with so many digits
Stamp(secs, frac, digits) == [secs |-> secs, frac |-> frac, digits |-> digits]

\* the time a stamp stands for, in milliseconds
StampMillis(stamp) ==
    stamp.secs * 1000 + (IF stamp.digits = 2 THEN stamp.frac * 10 ELSE stamp.frac)

\* NaiveTime::parse_from_str(s, "%H:%M:%S.%f").signed_duration_since(MIN):
\* %f reads the digits behind the dot as a number of nanoseconds
ParseStamp(stamp) == Delta(stamp.secs, stamp.frac)

\* TimeDelta: a > b
DeltaGreater(a, b) == a.secs > b.secs \/ (a.secs = b.secs /\ a.nanos > b.nanos)

\* the stamp format_time_delta(&delta) writes: the seconds and, with three
\* digits, the milliseconds of the delta
FormatDelta(delta) == Stamp(delta.secs, delta.nanos \div 1000000, 3)

\* the start and end times (as written, centiseconds) of the dialogue lines
DialogueTimes ==
    {<<Stamp(1, 0, 2), Stamp(2, 0, 2)>>,
     <<Stamp(2, 0, 2), Stamp(30, 0, 2)>>,
     <<Stamp(2, 0, 2), Stamp(1, 0, 2)>>,
     <<Stamp(23, 40, 2), Stamp(24, 50, 2)>>,
     <<Stamp(23, 99, 2), Stamp(23, 99, 2)>>,
     <<Stamp(30, 0, 2), Stamp(30, 0, 2)>>}

\* a line of the file: the [Script Info] header, a dialogue line, or any
\* other line
LineKinds ==
    {[kind |-> "script_info", hint |-> FALSE], [kind |-> "other"]}
    \cup {[kind |-> "dialogue", layer |-> 0, start |-> t[1], end |-> t[2]] :
             t \in DialogueTimes}

\* the files of at most n lines; text tells the lines apart
SubtitleFiles(n) ==
    UNION {{[k \in 1..len |-> [line |-> f[k], text |-> k]] : f \in [1..len -> LineKinds]} :
              len \in 0..n}

\* the video lengths the times are clamped to
MaxLengths == {Delta(23, 500000000), Delta(24, 0)}

\* the loop over the lines: the header gets the style hint, a dialogue line
\* with a time beyond max_length is rewritten with the clamped times
FixLine(l, max) ==
    IF l.line.kind = "script_info"
    THEN [l EXCEPT !.line.hint = TRUE]
    ELSE IF l.line.kind = "dialogue"
         THEN LET start == ParseStamp(l.line.start)
                  end == ParseStamp(l.line.end)
                  start2 == IF DeltaGreater(start, max) THEN max ELSE start
                  end2 == IF DeltaGreater(start2, max) \/ DeltaGreater(end, max)
                          THEN max
                          ELSE end
              IN IF DeltaGreater(start, max) \/ DeltaGreater(end, max)
                 THEN [l EXCEPT !.line.start = FormatDelta(start2),
                                !.line.end = FormatDelta(end2)]
                 ELSE l
         ELSE l

\* the start time pushed to entries.0 for a dialogue line
EntryStart(l, max) ==
    LET start == ParseStamp(l.line.start)
    IN IF DeltaGreater(start, max) THEN max ELSE start

\* entries.1: the indices (from 0) of the dialogue lines, in file order
DialogueIndices(lines) ==
    LET positions == SelectSeq([k \in 1..Len(lines) |-> k],
                               LAMBDA k : lines[k].line.kind = "dialogue")
    IN [k \in 1..Len(positions) |-> positions[k] - 1]

RECURSIVE InsertEntry(_, _)
\* e goes in front of the first entry with a greater start
InsertEntry(sorted, e) ==
    IF sorted = <<>>
    THEN <<e>>
    ELSE IF DeltaGreater(Head(sorted).start, e.start)
         THEN <<e>> \o sorted
         ELSE <<Head(sorted)>> \o InsertEntry(Tail(sorted), e)

RECURSIVE SortEntries(_, _)
\* entries.0.sort_by(|(a, _), (b, _)| a.cmp(b)), a stable sort
SortEntries(entries, sorted) ==
    IF entries = <<>>
    THEN sorted
    ELSE SortEntries(Tail(entries), InsertEntry(sorted, Head(entries)))

\* as_lines.swap(a, b), indices from 0
Swap(lines, a, b) ==
    [k \in 1..Len(lines) |->
        IF k = a + 1 THEN lines[b + 1] ELSE IF k = b + 1 THEN lines[a + 1] ELSE lines[k]]

RECURSIVE SwapLoop(_, _, _, _)
\* for i in 0..entries.0.len(): swap the lines at the index that entries.0[i]
\* carries and at entries.1[i], if they differ
SwapLoop(lines, entries0, entries1, i) ==
    IF i >= Len(entries0)
    THEN lines
    ELSE LET original_position == entries0[i + 1].index
             new_position == entries1[i + 1]
         IN SwapLoop(IF original_position # new_position
                     THEN Swap(lines, original_position, new_position)
                     ELSE lines,
                     entries0, entries1, i + 1)

\* fix_subtitles(raw, max_length): the lines it leaves
fix_subtitles(lines, max) ==
    LET as_lines == [k \in 1..Len(lines) |-> FixLine(lines[k], max)]
        entries1 == DialogueIndices(lines)
        entries0 == [k \in 1..Len(entries1) |->
                        [start |-> EntryStart(lines[entries1[k] + 1], max),
                         index |-> entries1[k]]]
    IN SwapLoop(as_lines, SortEntries(entries0, <<>>), entries1, 0)

\* the arguments of one call of fix_subtitles
FixInit ==
    /\ raw \in SubtitleFiles(MaxLines)
    /\ max_length \in MaxLengths
    /\ fixed = <<>>
    /\ NoMuxRun
    /\ NoCollection
    /\ d_pc = "fix_subtitles"
    /\ font_cache = [f \in {} |-> ""]
    /\ font_log = <<>>
    /\ video_len = 0
    /\ events = <<>>
    /\ NoDownload
    /\ FetchIdle

FixSubtitles ==
    /\ d_pc = "fix_subtitles"
    /\ fixed' = fix_subtitles(raw, max_length)
    /\ d_pc' = "subtitles_fixed"
    /\ UNCHANGED <<fvars, options, video_len, events, font_cache, font_log, raw, max_length,
                   mvars, kvars, formats, raw_audios, root_format_idx, audio_offsets, subtitle_offsets,
                   video_offset, warnings, audios, videos, pvars, rvars>>

SpecFix == FixInit /\ [][FixSubtitles]_vars

\* ------------------------------------- write_ffmpeg_chapters on its own
\* the times (ms) an event can start or end at, and a video can end at
ChapterTimes == {0, 5000, 10000, 15001, 30000}

\* Option<SkipEventsEvent> with 0 <= start < end
EventOptions ==
    {<<>>} \cup {<<[start |-> x[1], end |-> x[2]]>> :
                    x \in {y \in ChapterTimes \X ChapterTimes : y[1] < y[2]}}

\* the number of events of a SkipEvents value
EventCount(skip_events) == Len(ChapterEvents(skip_events))

\* the SkipEvents values with at most MaxEvents events
SkipEventsValues ==
    {se \in [recap : EventOptions, intro : EventOptions,
             credits : EventOptions, preview : EventOptions] :
        EventCount(se) <= MaxEvents}

\* the arguments of one call of write_ffmpeg_chapters
ChaptersInit ==
    /\ video_len \in ChapterTimes
    /\ events \in {ChapterEvents(se) : se \in SkipEventsValues}
    /\ d_pc = "write_chapters"
    /\ NoDownload
    /\ NoFontCalls
    /\ FetchIdle

WriteChapters ==
    /\ d_pc = "write_chapters"
    /\ sidecar' = write_ffmpeg_chapters(video_len, events)
    /\ d_pc' = "chapters_written"
    /\ UNCHANGED <<fvars, options, cvars, formats, raw_audios, root_format_idx,
                   audio_offsets, subtitle_offsets, video_offset, warnings, audios, videos,
                   subtitles, chapters, input, maps, output_presets, command_args, rvars>>

SpecChapters == ChaptersInit /\ [][WriteChapters]_vars

\* the files named by the -i arguments, in order
InputFiles == [k \in 1..Len(SelectSeq([j \in 1..Len(input) |-> j], LAMBDA j : input[j] = "-i")) |->
                  input[SelectSeq([j \in 1..Len(input) |-> j], LAMBDA j : input[j] = "-i")[k] + 1]]

\* the files of the video and audio inputs, in order
MediaInputFiles ==
    SelectSeq(InputFiles,
              LAMBDA p : \E id \in 0..(Len(added) - 1) :
                            p = VideoPath(id) \/ p = AudioPath(id, 0))

\* the input `path` is preceded by `-ss time`
HasStartOffset(path, time) ==
    \E k \in 1..Len(input) :
        /\ k + 3 <= Len(input)
        /\ input[k] = "-ss"
        /\ input[k + 1] = time
        /\ input[k + 2] = "-i"
        /\ input[k + 3] = path

\* total video segment duration minus offset of variant i (0-based), in ms
EffectiveLength(i) == SumMillis(added[i + 1].video) - OffsetOrDefault(sync_result[1], i)

\* C9: after an alignment whose offsets passed the sanity check, the root is
\* the variant with the greatest (total video duration - offset), the lowest
\* index among equals.
C9_RootIsArgmax ==
    root_format_idx # <<>> =>
        \A j \in 0..(Len(added) - 1) :
            \/ EffectiveLength(j) < EffectiveLength(root_format_idx[1])
            \/ (EffectiveLength(j) = EffectiveLength(root_format_idx[1])
                  /\ root_format_idx[1] <= j)

\* Scenario S2: A = variant 0 with 24.000 s, B = variant 1 with 24.500 s,
\* offsets A: 0 ms, B: 500 ms, sync enabled
ScenarioS2 ==
    /\ Len(added) = 2
    /\ SumMillis(added[1].video) = 24000
    /\ SumMillis(added[2].video) = 24500
    /\ merge_sync_tolerance # <<>>
    /\ sync_result = <<(0 :> 0 @@ 1 :> 500)>>

\* C10 as stated: in scenario S2 the root is B, the only video input is B's,
\* the audio inputs are A then B and B's audio is preceded by -ss 00:00:00.500.
C10_Original ==
    (ScenarioS2 /\ d_pc = "planned") =>
        /\ root_format_idx = <<1>>
        /\ MediaInputFiles = <<VideoPath(1), AudioPath(0, 0), AudioPath(1, 0)>>
        /\ HasStartOffset(AudioPath(1, 0), "00:00:00.500")

\* C10 amended: in scenario S2 both variants have the effective length
\* 24.000 s, so the root is A (lowest index): the only video input is A's,
\* the audio inputs are A then B and B's audio is preceded by -ss 00:00:00.500.
C10_RootIsA ==
    (ScenarioS2 /\ d_pc = "planned") =>
        /\ root_format_idx = <<0>>
        /\ MediaInputFiles = <<VideoPath(0), AudioPath(0, 0), AudioPath(1, 0)>>
        /\ HasStartOffset(AudioPath(1, 0), "00:00:00.500")

C10_Witness ==
    /\ ScenarioS2
    /\ d_pc = "planned"
    /\ Len(videos) = 1
    /\ Len(audios) = 2

\* the effective lengths (ms) of all variants
EffectiveLengths == {EffectiveLength(i) : i \in 0..(Len(added) - 1)}

\* sync_audios ran and returned offsets
OffsetsReturned == Len(added) > 1 /\ merge_sync_tolerance # <<>> /\ sync_result # <<>>

\* the input `path` is preceded by some `-ss time`
CarriesStartOffset(path) ==
    \E k \in 1..Len(input) :
        /\ k + 3 <= Len(input)
        /\ input[k] = "-ss"
        /\ input[k + 2] = "-i"
        /\ input[k + 3] = path

\* C11: when the aligner returned offsets and the greatest and the least
\* effective length (total video duration - offset, in ms) differ by more
\* than 15 s, the offsets are discarded: no variants are merged and no audio
\* input of the plan carries a -ss start offset.
C11_SpreadOver15sDiscards ==
    (/\ OffsetsReturned
     /\ SetMax(EffectiveLengths) - SetMin(EffectiveLengths) > 15000
     /\ d_pc = "planned") =>
        /\ root_format_idx = <<>>
        /\ Len(formats) = Len(added)
        /\ \A k \in 1..Len(audios) :
              audios[k].start_time = <<>> /\ ~CarriesStartOffset(audios[k].path)

\* the run is an eligible multi-variant run: sync_audios is called
Eligible == Len(added) > 1 /\ merge_sync_tolerance # <<>>

\* the offsets sync_audios returned fail the sanity check: in whole seconds
\* the greatest effective length is more than 15 above the least
OffsetsRejected ==
    /\ OffsetsReturned
    /\ NumSeconds(SetMax(EffectiveLengths)) - NumSeconds(SetMin(EffectiveLengths)) > 15

NoSyncPositionsWarning == "Couldn't find reliable sync positions"
Over15SecondsWarning ==
    "Found difference of >15 seconds after sync, so the application was skipped"

\* C12: in an eligible multi-variant run the warning "Couldn't find reliable
\* sync positions" is emitted exactly when the aligner returned no offsets,
\* the warning "Found difference of >15 seconds" exactly when offsets were
\* returned but rejected by the sanity check, and never both.
C12_WarningsTellCause ==
    Eligible =>
        IF d_pc \in {"start", "audios"}
        THEN warnings = {}
        ELSE /\ (NoSyncPositionsWarning \in warnings) <=> (sync_result = <<>>)
             /\ (Over15SecondsWarning \in warnings) <=> OffsetsRejected
             /\ ~(NoSyncPositionsWarning \in warnings /\ Over15SecondsWarning \in warnings)

C12_Witness ==
    /\ Eligible
    /\ d_pc = "planned"
    /\ OffsetsRejected
    /\ warnings = {Over15SecondsWarning}

\* the alignment of an eligible run is abandoned: no offsets, or rejected ones
Abandoned == Eligible /\ (sync_result = <<>> \/ OffsetsRejected)

\* the argument vector has the word arg
HasArg(arg) == \E k \in 1..Len(command_args) : command_args[k] = arg

\* C13: whenever an eligible multi-variant alignment is abandoned (no offsets
\* returned, or offsets rejected by the sanity check) every variant's
\* skip_events is cleared before the chapters are collected, so the plan has
\* no chapters input and no -map_metadata.
C13_AbandonedClearsSkipEvents ==
    Abandoned =>
        /\ d_pc \notin {"start", "audios"} =>
              \A k \in 1..Len(formats) : formats[k].skip_events = <<>>
        /\ d_pc \in {"fonts", "plan", "planned", "muxing", "done"} => chapters = <<>>
        /\ d_pc = "planned" =>
              /\ sidecar = <<>>
              /\ ~HasArg(ChapterPath)
              /\ ~HasArg("-map_metadata")

C13_Witness ==
    /\ Abandoned
    /\ OffsetsRejected
    /\ d_pc = "planned"
    /\ \A k \in 1..Len(added) : added[k].skip_events # <<>>
    /\ Len(formats) = Len(added)

\* C14 as stated: when the sync of two variants is rejected by the sanity
\* check, exactly one video is fetched and muxed and both variants are kept
\* as audio-only additions.
C14_Original ==
    (Len(added) = 2 /\ OffsetsRejected /\ d_pc = "planned") =>
        /\ Len(videos) = 1
        /\ Len(SelectSeq(MediaInputFiles, LAMBDA p : p \in {VideoPath(0), VideoPath(1)})) = 1
        /\ [k \in 1..Len(audios) |-> audios[k].path] = <<AudioPath(0, 0), AudioPath(1, 0)>>

\* C14 amended: when the sync of two variants is rejected by the sanity
\* check, no variant is merged and the plan is a multi-video output: the
\* video of each variant is fetched and muxed, in the order of the variants,
\* then the audio of each variant, and no input carries a start offset.
C14_RejectedKeepsBothVideos ==
    (Len(added) = 2 /\ OffsetsRejected /\ d_pc = "planned") =>
        /\ root_format_idx = <<>>
        /\ [k \in 1..Len(videos) |-> videos[k].path] = <<VideoPath(0), VideoPath(1)>>
        /\ MediaInputFiles = <<VideoPath(0), VideoPath(1), AudioPath(0, 0), AudioPath(1, 0)>>
        /\ \A k \in 1..Len(InputFiles) : ~CarriesStartOffset(InputFiles[k])
        /\ HasArg("title=#1") /\ HasArg("title=#2")

C14_Witness ==
    /\ Len(added) = 2
    /\ OffsetsRejected
    /\ d_pc = "planned"
    /\ Len(videos) = 2
    /\ Len(audios) = 2

\* the tracks of a kind of the variants added at the positions from..to
\* (0-based), in the order of the variants
TracksOf(kind, from, to) ==
    Flatten([k \in 1..(to - from + 1) |-> added[from + k][kind]])

\* C15: after a successful alignment with root r exactly one variant
\* remains: only the root's video is fetched and muxed, only the root's skip
\* events are used, and the merged audio and subtitle lists are the tracks of
\* the variants before r, then the root's, then those of the variants behind
\* r, each group in the original order, no track lost or duplicated.
C15_MergedIntoRoot ==
    root_format_idx # <<>> =>
        LET r == root_format_idx[1]
        IN /\ Len(formats) = 1
           /\ formats[1].id = added[r + 1].id
           /\ formats[1].video = added[r + 1].video
           /\ formats[1].skip_events = added[r + 1].skip_events
           /\ formats[1].audios =
                 TracksOf("audios", 0, r - 1) \o added[r + 1].audios
                    \o TracksOf("audios", r + 1, Len(added) - 1)
           /\ formats[1].subtitles =
                 TracksOf("subtitles", 0, r - 1) \o added[r + 1].subtitles
                    \o TracksOf("subtitles", r + 1, Len(added) - 1)
           /\ d_pc = "planned" =>
                 /\ [k \in 1..Len(videos) |-> videos[k].path] = <<VideoPath(r)>>
                 /\ SelectSeq(InputFiles,
                              LAMBDA p : \E id \in 0..(Len(added) - 1) : p = VideoPath(id))
                       = <<VideoPath(r)>>
                 /\ chapters = <<ChapterEvents(added[r + 1].skip_events[1])>>
                 /\ sidecar = write_ffmpeg_chapters(SumMillis(added[r + 1].video),
                                                    ChapterEvents(added[r + 1].skip_events[1]))

C15_Witness ==
    /\ Len(added) = 3
    /\ root_format_idx = <<1>>
    /\ d_pc = "planned"
    /\ Len(formats[1].audios) = 3
    /\ Len(subtitles) = 3

\* C16: for every video length and every list of skip events with
\* 0 <= start < end, the [CHAPTER] blocks of the sidecar are written with
\* non-decreasing START values, event chapters and Episode chapters alike.
C16_StartsNonDecreasing ==
    \A k \in 1..(Len(sidecar) - 1) : sidecar[k].START <= sidecar[k + 1].START

C16_Witness ==
    /\ d_pc = "chapters_written"
    /\ \E k \in 1..(Len(events) - 1) : events[k].start > events[k + 1].start
    /\ Len(sidecar) >= 3
    /\ \E k \in 2..(Len(sidecar) - 1) : sidecar[k].title = "Episode"

\* the events of the call in the order of their start times
EventsInOrder == SortByStart(events)

\* the end of the k-th event in that order, 0 before the first one
PrevEnd(k) == IF k = 0 THEN 0 ELSE EventsInOrder[k].end

\* the start of the event behind the k-th one, the video end behind the last
NextStart(k) == IF k = Len(EventsInOrder) THEN video_len ELSE EventsInOrder[k + 1].start

\* C17: an Episode chapter (prev_end, next_start) is written exactly when
\* next_start - prev_end is strictly greater than 10 s, prev_end being 0
\* before the first event and the video end being the next_start behind the
\* last event; a gap of exactly 10 s gives no Episode chapter.
C17_EpisodeIffGapOver10s ==
    d_pc = "chapters_written" =>
        /\ \A k \in 0..Len(EventsInOrder) :
              (NextStart(k) - PrevEnd(k) > 10000)
                 <=> \E j \in 1..Len(sidecar) :
                         sidecar[j] = [START |-> PrevEnd(k), END |-> NextStart(k),
                                       title |-> "Episode"]
        /\ Len(SelectSeq(sidecar, LAMBDA c : c.title = "Episode"))
              = Cardinality({k \in 0..Len(EventsInOrder) : NextStart(k) - PrevEnd(k) > 10000})

C17_Witness ==
    /\ d_pc = "chapters_written"
    /\ Len(events) = 1
    /\ events[1].start = 10000
    /\ sidecar[1].title # "Episode"
    /\ Len(sidecar) = 2
    /\ sidecar[2].title = "Episode"

\* subtitles are muxed as soft tracks
SoftMode == ~force_hardsub /\ dst_extension \in {"mkv", "mov", "mp4"}

\* how often the word arg is in the argument vector
CountArg(arg) == Len(SelectSeq(command_args, LAMBDA a : a = arg))

\* the words behind the occurrences of the word arg, in order
ValuesOf(arg) ==
    LET at == SelectSeq([j \in 1..(Len(command_args) - 1) |-> j],
                        LAMBDA j : command_args[j] = arg)
    IN [k \in 1..Len(at) |-> command_args[at[k] + 1]]

\* the argument vector has the word a directly followed by the word b
HasPair(a, b) ==
    \E j \in 1..(Len(command_args) - 1) : command_args[j] = a /\ command_args[j + 1] = b

\* C18: the argument vector has exactly one -map per video input, per audio
\* input and per soft-subtitle input and no other -map, exactly one
\* -map_metadata when a chapters sidecar exists and none otherwise; in hardsub
\* mode no subtitle gets a -i or a -map.
C18_OneMapPerInput ==
    d_pc = "planned" =>
        LET mapped == Len(videos) + Len(audios) + (IF SoftMode THEN Len(subtitles) ELSE 0)
        IN /\ ValuesOf("-map") = [k \in 1..mapped |-> ToString(k - 1)]
           /\ CountArg("-map") = mapped
           /\ CountArg("-map_metadata") = (IF chapters # <<>> THEN 1 ELSE 0)
           /\ chapters # <<>> <=> HasPair("-i", ChapterPath)
           /\ Len(ValuesOf("-i")) = mapped + (IF chapters # <<>> THEN 1 ELSE 0)
           /\ \A k \in 1..Len(subtitles) :
                 IF SoftMode
                 THEN HasPair("-i", subtitles[k].path)
                 ELSE ~HasPair("-i", subtitles[k].path)

C18_Witness ==
    /\ d_pc = "planned"
    /\ SoftMode
    /\ Len(videos) = 2
    /\ Len(subtitles) >= 2
    /\ chapters # <<>>
    /\ CountArg("-map") >= 6

\* C19: in a plan with soft subtitles every closed-caption subtitle at stream
\* index i gets -disposition:s:s:i forced and no other subtitle gets forced;
\* if a default subtitle locale is configured and some subtitle has that
\* locale, -disposition:s:s:p default is emitted exactly once, p being the
\* stream index of such a subtitle, and otherwise no default disposition is
\* emitted.
C19_Dispositions ==
    (d_pc = "planned" /\ SoftMode) =>
        LET matching == {k \in 1..Len(subtitles) :
                            default_subtitle # <<>> /\ subtitles[k].locale = default_subtitle[1]}
        IN /\ \A k \in 1..Len(subtitles) :
                 subtitles[k].cc <=> HasPair("-disposition:s:s:" \o ToString(k - 1), "forced")
           /\ CountArg("forced") = Cardinality({k \in 1..Len(subtitles) : subtitles[k].cc})
           /\ IF matching # {}
              THEN /\ CountArg("default") = 1
                   /\ \E p \in matching :
                         HasPair("-disposition:s:s:" \o ToString(p - 1), "default")
              ELSE CountArg("default") = 0

C19_Witness ==
    /\ d_pc = "planned"
    /\ SoftMode
    /\ \E k \in 1..Len(subtitles) : subtitles[k].cc
    /\ \E k \in 1..Len(subtitles) : ~subtitles[k].cc
    /\ HasPair("-disposition:s:s:2", "default")
    /\ HasPair("-disposition:s:s:0", "forced")

\* the subtitle of the default subtitle locale is burned into the video
BurnedIn ==
    /\ ~SoftMode
    /\ default_subtitle # <<>>
    /\ \E k \in 1..Len(subtitles) : subtitles[k].locale = default_subtitle[1]

\* args has `-c:v copy` or `-c:a copy`
HasCopyPair(args) ==
    \E j \in 1..(Len(args) - 1) : args[j] \in {"-c:v", "-c:a"} /\ args[j + 1] = "copy"

\* the word at position j of args is part of a `-c:v copy` or `-c:a copy`
InCopyPair(args, j) ==
    \/ j < Len(args) /\ args[j] \in {"-c:v", "-c:a"} /\ args[j + 1] = "copy"
    \/ j > 1 /\ args[j - 1] \in {"-c:v", "-c:a"} /\ args[j] = "copy"

\* the words of args that are part of no such pair, in their order
OutsideCopyPairs(args) ==
    LET at == SelectSeq([j \in 1..Len(args) |-> j], LAMBDA j : ~InCopyPair(args, j))
    IN [k \in 1..Len(at) |-> args[at[k]]]

\* C20: for every output preset, when subtitles are burned into the video the
\* output arguments passed to the multiplexer have no adjacent pair
\* (-c:v, copy) or (-c:a, copy), and every other preset argument is kept, in
\* its original order.
C20_NoCodecCopyWhenBurnedIn ==
    (d_pc = "planned" /\ BurnedIn) =>
        /\ ~HasCopyPair(output_presets)
        /\ SubSeq(output_presets, 1, Len(output_presets) - 2) = OutsideCopyPairs(ffmpeg_preset)
        /\ output_presets[Len(output_presets) - 1] = "-vf"

\* the argument vector has a -disposition:s:s:<i> word
HasSubtitleDisposition ==
    \E k \in 0..Len(subtitles) : HasArg("-disposition:s:s:" \o ToString(k))

\* C21: when hardsub is forced and a default subtitle is present, the
\* argument vector has no -disposition:s:s:* entry at all, whatever
\* subtitles were downloaded, closed-caption ones included.
C21_NoDispositionWhenHardsub ==
    (/\ d_pc = "planned"
     /\ force_hardsub
     /\ default_subtitle # <<>>
     /\ \E k \in 1..Len(subtitles) : subtitles[k].locale = default_subtitle[1]) =>
        ~HasSubtitleDisposition /\ CountArg("forced") = 0 /\ CountArg("default") = 0

\* C22: for a name of the font table, once a call of download_font has
\* succeeded the cache holds the file, and every later call for that name
\* returns the same path and the same bytes with was_cached = true and sends
\* no request; a name that is not in the table returns nothing and leaves the
\* cache as it was.
C22_FontCacheIdempotent ==
    /\ \A i \in 1..Len(font_log) :
          IF FindFont(font_log[i].name) = <<>>
          THEN /\ font_log[i].ret.kind = "none"
               /\ ~font_log[i].cache_changed
               /\ font_log[i].requests = 0
          ELSE font_log[i].ret.kind = "some" =>
                  /\ FindFont(font_log[i].name)[1] \in DOMAIN font_cache
                  /\ font_cache[FindFont(font_log[i].name)[1]] = font_log[i].bytes
    /\ \A i \in 1..Len(font_log) : \A j \in (i + 1)..Len(font_log) :
          (/\ font_log[i].name = font_log[j].name
           /\ font_log[i].ret.kind = "some") =>
              /\ font_log[j].ret = [kind |-> "some", path |-> font_log[i].ret.path,
                                    was_cached |-> TRUE]
              /\ font_log[j].bytes = font_log[i].bytes
              /\ font_log[j].requests = 0
              /\ ~font_log[j].cache_changed

\* a font was downloaded, asked for again and served from the cache, and a
\* name that is not in the table was asked for
C22_Witness ==
    /\ Len(font_log) = 3
    /\ font_log[1].name = "Arial" /\ font_log[1].ret.kind = "some"
    /\ ~font_log[1].ret.was_cached
    /\ font_log[2].name = "Arial" /\ font_log[2].ret.kind = "some"
    /\ font_log[3].name = "Helvetica"

\* the place of a locale in the preference list, a locale that is not in the
\* list counting as behind all that are
Rank(locale) ==
    IF LocalePosition(audio_sort[1], locale) = <<>>
    THEN Len(audio_sort[1])
    ELSE LocalePosition(audio_sort[1], locale)[1]

\* the place an audio locale had in the list of the variant as it was added
AddedAt(id, locale) == LocalePosition(added[id + 1].audios, locale)[1]

\* C23: with an audio-locale preference list set, the variants are ordered by
\* the position of their video locale in the list, variants whose locale is
\* not in the list come after all whose locale is in it, variants of equal
\* position keep the order they were added in, and the audio tracks of every
\* variant are ordered by the same rule.
C23_SortedByPreference ==
    (d_pc = "audios" /\ audio_sort # <<>>) =>
        /\ Len(formats) = Len(added)
        /\ \A i \in 1..Len(formats) : \A j \in (i + 1)..Len(formats) :
              /\ Rank(formats[i].locale) <= Rank(formats[j].locale)
              /\ Rank(formats[i].locale) = Rank(formats[j].locale) =>
                    formats[i].id < formats[j].id
        /\ \A k \in 1..Len(formats) :
              LET new == formats[k].audios
                  id == formats[k].id
              IN /\ Len(new) = Len(added[id + 1].audios)
                 /\ \A i \in 1..Len(new) : \A j \in (i + 1)..Len(new) :
                       /\ Rank(new[i]) <= Rank(new[j])
                       /\ Rank(new[i]) = Rank(new[j]) =>
                             AddedAt(id, new[i]) < AddedAt(id, new[j])

\* the dialogue lines of a file, in file order
Dialogues(lines) == SelectSeq(lines, LAMBDA l : l.line.kind = "dialogue")

\* C24: after fix_subtitles the dialogue lines appear in non-decreasing order
\* of their (clamped) start time, and dialogue lines with the same start time
\* keep the order they had, whatever the order of the lines of the input.
C24_DialoguesSortedStably ==
    d_pc = "subtitles_fixed" =>
        \A i \in 1..Len(Dialogues(fixed)) : \A j \in (i + 1)..Len(Dialogues(fixed)) :
            LET a == Dialogues(fixed)[i]
                b == Dialogues(fixed)[j]
            IN /\ StampMillis(a.line.start) <= StampMillis(b.line.start)
               /\ StampMillis(a.line.start) = StampMillis(b.line.start) => a.text < b.text

\* max_length in milliseconds
MaxMillis == max_length.secs * 1000 + (max_length.nanos \div 1000000)

\* C25: after fix_subtitles every dialogue line has start <= max_length and
\* end <= max_length, a line whose start and end were both <= max_length has
\* its times unchanged, and every line that had end >= start still has
\* end >= start.
C25_TimesClamped ==
    d_pc = "subtitles_fixed" =>
        \A i \in 1..Len(Dialogues(fixed)) :
            LET new == Dialogues(fixed)[i]
                old == raw[new.text]
            IN /\ StampMillis(new.line.start) <= MaxMillis
               /\ StampMillis(new.line.end) <= MaxMillis
               /\ (/\ StampMillis(old.line.start) <= MaxMillis
                   /\ StampMillis(old.line.end) <= MaxMillis) =>
                      /\ new.line.start = old.line.start
                      /\ new.line.end = old.line.end
               /\ StampMillis(old.line.end) >= StampMillis(old.line.start) =>
                      StampMillis(new.line.end) >= StampMillis(new.line.start)

\* the probe ran: both statvfs calls and current_dir succeeded
Probed ==
    /\ d_pc = "audios"
    /\ disk.tmp.ok /\ disk.dst.ok /\ disk.cwd

\* the temp directory and the destination are taken for one partition: equal
\* total bytes, free bytes less than 10 KiB apart
OnePartition ==
    /\ disk.tmp.total = disk.dst.total
    /\ disk.tmp.available - disk.dst.available < 10240
    /\ disk.dst.available - disk.tmp.available < 10240

\* C26: when the temp directory and the destination resolve to the same
\* partition, the prober returns a warning whenever the free space of that
\* partition is less than twice the estimated download size.
C26_DoubledDemand ==
    (/\ Probed
     /\ dst_kind = "file"
     /\ OnePartition
     /\ disk.tmp.available < 2 * EstimatedRequiredSpace(added)
     /\ disk.dst.available < 2 * EstimatedRequiredSpace(added)) =>
        warnings # {}

TempSpaceCounted ==
    IF OnePartition THEN 2 * disk.tmp.available ELSE disk.tmp.available

StepCount(name) == Len(SelectSeq(steps, LAMBDA s : s = name))

\* the sorts of fetches
Fetches == {"audio", "video", "subtitle", "font"}

\* the audios of all variants
AudiosAdded == Len(Flatten([k \in 1..Len(added) |-> added[k].audios]))

\* C28: in every run all audio fetches of all variants are complete before
\* the aligner starts, the aligner is complete before a video fetch starts,
\* and every audio, video, subtitle and font fetch is complete before the plan
\* is assembled and the multiplexer is spawned.
C28_PhasesInOrder ==
    /\ \A i \in 1..Len(steps) : \A j \in (i + 1)..Len(steps) :
          /\ steps[i] = "align" => steps[j] # "audio"
          /\ steps[i] = "video" => steps[j] \notin {"audio", "align"}
          /\ steps[i] \in {"plan", "spawn"} => steps[j] \notin Fetches \cup {"align"}
          /\ steps[i] = "spawn" => steps[j] # "plan"
    /\ StepCount("align") > 0 => StepCount("audio") = AudiosAdded
    /\ StepCount("video") > 0 => StepCount("audio") = AudiosAdded
    /\ StepCount("plan") > 0 =>
          /\ StepCount("audio") = AudiosAdded
          /\ StepCount("video") = Len(formats)
          /\ StepCount("subtitle") = Len(AllSubtitles(formats, no_closed_caption))
          /\ (download_fonts /\ ~force_hardsub /\ dst_extension = "mkv") =>
                StepCount("font") = Len(FontNamesOf(subtitles))

\* a run of two variants that were aligned and muxed with their fonts
C28_Witness ==
    /\ d_pc = "done"
    /\ Len(added) = 2
    /\ StepCount("align") = 1
    /\ StepCount("audio") = 2
    /\ StepCount("subtitle") = 2
    /\ StepCount("font") = 2
    /\ StepCount("spawn") = 1

\* download() has returned or panicked
Returned == d_pc \in {"done", "failed", "panic"}

FetchOps ==
    {Op(kind, k) : kind \in Fetches, k \in 0..(MaxRunVariants - 1)} \cup {"sync"}

\* C30: if an audio, video, subtitle or font fetch, or the aligner, fails with
\* a hard error, download returns that error, the first one, without entering
\* any later state: no further fetch is started, the multiplexer is never
\* spawned, and every temp file created so far is released.
C30_FirstErrorEndsRun ==
    /\ [](\A op \in FetchOps :
            (d_pc = "failed" /\ ret = <<op>>) =>
               /\ op \in fails
               /\ steps[Len(steps)] = "failed"
               /\ StepCount("failed") = 1
               /\ StepCount("plan") = 0
               /\ mux_spawned = 0
               /\ temp_files = {})
    /\ [][d_pc # "failed"]_vars

\* the second video fetch failed after two audio fetches and one video fetch
\* had left their temp files
C30_Witness ==
    /\ d_pc = "failed"
    /\ ret = <<Op("video", 1)>>
    /\ StepCount("audio") = 2
    /\ StepCount("video") = 1
    /\ temp_files = {}

\* download() is past the block that aligns the variants
PastAlign == d_pc \in {"audio_meta", "videos", "subtitles", "fonts", "plan",
                       "planned", "muxing", "done"}

\* download() is past the loop that fetches the videos
PastVideos == d_pc \in {"subtitles", "fonts", "plan", "planned", "muxing", "done"}

\* download() has built the argument vector
Planned == d_pc \in {"planned", "muxing", "done"}

\* C31: the aligner is invoked if and only if more than one variant was added
\* and a sync tolerance is configured; when it is not invoked, no variants are
\* merged, every variant's video is fetched, no input carries -ss, and the
\* variants' skip_events are left untouched.
C31_AlignerIffSeveralAndTolerance ==
    /\ PastAlign =>
          (StepCount("align") = 1 <=> (Len(added) > 1 /\ merge_sync_tolerance # <<>>))
    /\ StepCount("align") <= 1
    /\ (PastAlign /\ StepCount("align") = 0) =>
          /\ formats = added
          /\ root_format_idx = <<>>
          /\ \A k \in 1..Len(audios) : audios[k].start_time = <<>>
          /\ \A k \in 1..Len(videos) : videos[k].start_time = <<>>
          /\ \A k \in 1..Len(subtitles) : subtitles[k].start_time = <<>>
          /\ PastVideos =>
                /\ Len(videos) = Len(added)
                /\ \A k \in 1..Len(added) : videos[k].path = VideoPath(added[k].id)
          /\ Planned => ~HasArg("-ss")

\* two variants with skip events were muxed without a sync tolerance: the
\* aligner did not run
C31_Witness ==
    /\ d_pc = "planned"
    /\ Len(added) = 2
    /\ merge_sync_tolerance = <<>>
    /\ \A k \in 1..2 : added[k].skip_events # <<>>
    /\ StepCount("align") = 0

\* C32: after a successful alignment, a soft-subtitle input that originates
\* from variant v is preceded by `-ss offsets[v]` exactly when the offset map
\* has an entry for v: each subtitle carries the offset of its owning variant,
\* whatever its position in the merged subtitle list.
C32_SubtitleCarriesOwnersOffset ==
    (Planned /\ root_format_idx # <<>> /\ SoftMode) =>
        \A k \in 1..Len(subtitles) :
            IF subtitles[k].owner \in DOMAIN sync_result[1]
            THEN HasStartOffset(subtitles[k].path,
                                format_time_delta(sync_result[1][subtitles[k].owner]))
            ELSE ~CarriesStartOffset(subtitles[k].path)

\* the paths of a list of track metas, in order
PathsOf(metas) == [k \in 1..Len(metas) |-> metas[k].path]

\* the subtitles that are inputs: all of them in soft mode, none otherwise
SoftSubtitles == IF SoftMode THEN subtitles ELSE <<>>

\* C33: inputs appear in the argument vector as all videos, then all audios,
\* then (soft mode only) all subtitles, then the chapters sidecar if any; the
\* k-th -map argument (0-based) has value k and so names the k-th -i input,
\* and -map_metadata names the input index of the chapters sidecar, i.e.
\* #videos + #audios + #soft subtitles.
C33_InputOrderAndMaps ==
    Planned =>
        LET media == PathsOf(videos) \o PathsOf(audios) \o PathsOf(SoftSubtitles)
        IN /\ ValuesOf("-i") = media \o (IF chapters # <<>> THEN <<ChapterPath>> ELSE <<>>)
           /\ ValuesOf("-map") = [k \in 1..Len(media) |-> ToString(k - 1)]
           /\ ValuesOf("-map_metadata") =
                 (IF chapters # <<>> THEN <<ToString(Len(media))>> ELSE <<>>)
           /\ chapters # <<>> =>
                 ValuesOf("-i")[Len(videos) + Len(audios) + Len(SoftSubtitles) + 1]
                    = ChapterPath

\* two videos, two audios, soft subtitles and a chapters sidecar are inputs
C33_Witness ==
    /\ d_pc = "planned"
    /\ Len(videos) = 2
    /\ Len(audios) = 2
    /\ SoftMode
    /\ Len(subtitles) >= 2
    /\ chapters # <<>>
    /\ CountArg("-map_metadata") = 1

\* the files that are inputs of the multiplexer
InputSet == {ValuesOf("-i")[k] : k \in 1..Len(ValuesOf("-i"))}

\* subtitles are inputs exactly in soft mode
SoftIffSupported ==
    \A k \in 1..Len(subtitles) : subtitles[k].path \in InputSet <=> SoftMode

\* the filter that burns in the first subtitle of the default subtitle locale
BurnInFilter ==
    "ass='" \o subtitles[Position(subtitles, default_subtitle[1])[1] + 1].path \o "'"

\* C34 as claimed: subtitles are muxed as soft tracks if and only if hardsub
\* is not forced and the destination extension is mkv, mov or mp4; in every
\* other case no subtitle is an input, and the subtitles are burned in through
\* exactly one -vf ass=... filter that references the file of the subtitle
\* matching the default subtitle locale.
C34_Original ==
    Planned =>
        /\ SoftIffSupported
        /\ (~SoftMode /\ subtitles # <<>>) =>
              /\ CountArg("-vf") = 1
              /\ BurnedIn
              /\ ValuesOf("-vf") = <<BurnInFilter>>

\* C34 amended: subtitles are inputs if and only if hardsub is not forced and
\* the destination extension is mkv, mov or mp4. In every other case no
\* subtitle is an input; if a default subtitle locale is set and a subtitle of
\* that locale was downloaded, the first such subtitle is burned in through
\* exactly one -vf ass=... filter, and otherwise the argument vector has no
\* -vf and the subtitles are left out of the output. In soft mode there is no
\* -vf.
C34_SoftIffSupportedElseDefaultBurnedIn ==
    Planned =>
        /\ SoftIffSupported
        /\ ValuesOf("-vf") = (IF BurnedIn THEN <<BurnInFilter>> ELSE <<>>)

\* hardsub into an avi file: of the two subtitles downloaded, the one of the
\* default subtitle locale is burned in
C34_Witness ==
    /\ d_pc = "planned"
    /\ dst_extension = "avi"
    /\ Len(subtitles) >= 2
    /\ BurnedIn
    /\ CountArg("-vf") = 1
    /\ \A k \in 1..Len(subtitles) : subtitles[k].path \notin InputSet

\* the paths download_font has returned in this run, in order
FontsReturned ==
    LET some == SelectSeq(font_log, LAMBDA c : c.ret.kind = "some")
    IN [k \in 1..Len(some) |-> some[k].ret.path]

\* C35: fonts are fetched only when the destination extension is mkv, hardsub
\* is not forced and font downloading is enabled; then each fetched font i
\* (0-based, in order) yields one -attach <path> and one
\* -metadata:s:t:i mimetype=font/woff2, and in every other configuration the
\* argument vector has no -attach.
C35_FontsAttachedOnlyForMkv ==
    /\ font_log # <<>> => (dst_extension = "mkv" /\ ~force_hardsub /\ download_fonts)
    /\ Planned =>
          /\ fonts = FontsReturned
          /\ ValuesOf("-attach") = fonts
          /\ \A i \in 0..Len(font_log) :
                ValuesOf("-metadata:s:t:" \o ToString(i)) =
                   (IF i < Len(fonts) THEN <<"mimetype=font/woff2">> ELSE <<>>)
          /\ ~(dst_extension = "mkv" /\ ~force_hardsub /\ download_fonts) =>
                CountArg("-attach") = 0

\* two fonts were fetched for a mkv file and both are attached
C35_Witness ==
    /\ d_pc = "planned"
    /\ dst_extension = "mkv"
    /\ Len(fonts) = 2
    /\ CountArg("-attach") = 2
    /\ HasPair("-metadata:s:t:1", "mimetype=font/woff2")

\* the indices sent so far as data messages: those still in the channel,
\* those in the reorder buffer and those already written
SentSoFar ==
    {channel[k][1] : k \in {j \in 1..Len(channel) : channel[j][1] >= 0}}
    \cup DOMAIN buf
    \cup 0..(data_pos - 1)

\* the message that this step has put into the channel is a data message of
\* worker w for the segment it is working on
SendsOwnSegment(w) ==
    LET m == channel'[Len(channel')]
    IN /\ wpc[w] = "body"
       /\ m[1] = w + (wi[w] * cpus)
       /\ m[1] % cpus = w
       /\ m[1] = ThreadSegments(w, total_segments, cpus)[wi[w] + 1]
       /\ m[2] = Body(m[1])
       /\ \A p \in SentSoFar : p % cpus = w => p < m[1]
       /\ m[1] \notin SentSoFar

\* C36: with cpus = min(K, N), the workers' assignments partition {0..N-1}:
\* worker w is given exactly the indices congruent to w modulo cpus, processes
\* them in increasing order one at a time, and the index it attaches to each
\* body it sends equals the original manifest index of that segment, so no
\* index is sent by two workers and none is missing.
C36_RoundRobinPartition ==
    /\ [](/\ cpus = Min(download_threads, total_segments)
          /\ \A w \in Workers :
                LET mine == ThreadSegments(w, total_segments, cpus)
                IN /\ {mine[k] : k \in 1..Len(mine)}
                         = {s \in 0..(total_segments - 1) : s % cpus = w}
                   /\ \A k \in 1..(Len(mine) - 1) : mine[k] < mine[k + 1]
          /\ \A s \in 0..(total_segments - 1) :
                Cardinality({w \in Workers :
                    \E k \in 1..Len(ThreadSegments(w, total_segments, cpus)) :
                        ThreadSegments(w, total_segments, cpus)[k] = s}) = 1
          /\ (\A w \in Workers : wpc[w] = "ok") =>
                SentSoFar = 0..(total_segments - 1))
    /\ [][(Len(channel') > Len(channel) /\ channel'[Len(channel')][1] >= 0) =>
             \E w \in Workers : SendsOwnSegment(w)]_vars

\* two workers have sent all of three segments, the first worker two of them
C36_Witness ==
    /\ total_segments = 3
    /\ cpus = 2
    /\ \A w \in Workers : wpc[w] = "ok"
    /\ wi[0] = 1
    /\ SentSoFar = {0, 1, 2}

\* C37 as claimed: once the orchestrator cancels the token, ffmpeg_progress
\* terminates even if the FIFO never delivers a line or EOF; and whenever it
\* ends (cancellation, EOF or an unparsable line) with the last observed frame
\* below the expected total, the bar position is set to the total.
C37_Original ==
    /\ token ~> (p_pc # "select")
    /\ []((p_pc \in {"ok", "parse_failed"} /\ frame < total_frames /\ bar # <<>>) =>
             bar = <<total_frames>>)

\* C37 amended: once the token is cancelled, ffmpeg_progress terminates even
\* if the FIFO never delivers a line or EOF. Whenever it returns Ok (after the
\* cancellation, EOF or a line without a frame number) with the last observed
\* frame below the expected total, the bar, if there is one, is set to the
\* total; when it returns an error (a read error, or a frame number that does
\* not fit into a u64) the bar is left at the last observed frame.
C37_CancelEndsTaskAndOkFillsBar ==
    /\ token ~> (p_pc # "select")
    /\ []((p_pc = "ok" /\ frame < total_frames /\ bar # <<>>) => bar = <<total_frames>>)
    /\ []((p_pc \in {"parse_failed", "read_failed"} /\ bar # <<>>) => bar = <<frame>>)

\* the task has read frame 1 of 3 and was then ended by the cancellation,
\* with a line still unread: the bar is at 3
C37_Witness ==
    /\ p_pc = "ok"
    /\ token
    /\ fifo # <<>>
    /\ frame = 1
    /\ total_frames = 3
    /\ bar = <<3>>

\* C38: on every return path of download after the multiplexer was spawned,
\* the child process has been awaited and the progress task has been either
\* cancelled (exit status success) or aborted (nonzero exit, which returns an
\* error carrying the child's stderr); the progress task is never left running
\* when download returns.
C38_ChildAwaitedAndTaskEnded ==
    m_pc = "returned" =>
        /\ child_awaited
        /\ p_pc # "select"
        /\ wait_outcome = "success" => token
        /\ wait_outcome = "nonzero" => m_ret = <<"stderr">>

\* every worker task ended with Ok(()) and was returned by join_next()
AllJoinedOk ==
    /\ pc \in {"join", "done"}
    /\ join_set = <<>>
    /\ \A w \in Workers : wpc[w] = "ok" /\ werr[w] = NoErr

\* C39: whenever all workers of a fetch have joined without error, every one
\* of the N segment messages has been received and the reorder buffer is
\* already empty, so the 'Download buffer is not empty' error can never be
\* returned by download_segments.
C39_BufferEmptyWhenAllJoined ==
    /\ AllJoinedOk =>
          /\ channel = <<>>
          /\ count = total_segments
          /\ data_pos = total_segments
          /\ DOMAIN buf = {}
    /\ result # BufferNotEmpty

\* both workers of a fetch of three segments were joined without error, one
\* of them after a retry, and download_segments has not returned yet
C39_Witness ==
    /\ pc = "join"
    /\ AllJoinedOk
    /\ total_segments = 3
    /\ cpus = 2
    /\ \E s \in 0..2 : attempts[s] > 1
    /\ result = Running

\* the iteration has ended: next() returned None
IterationEnded == k_pc = "done"

\* the season of a group, and the call that added this season first
SeasonOf(g) == <<g[1], g[2]>>
FirstAdded(s) == SetMin({i \in 1..Len(calls) : SeasonOf(GroupOf(calls[i])) = s})

\* g is due before h: by the season number, among seasons of one number by
\* the first addition, within a season by the sequence number
DueBefore(g, h) ==
    \/ g[1] < h[1]
    \/ g[1] = h[1] /\ SeasonOf(g) # SeasonOf(h) /\ FirstAdded(SeasonOf(g)) < FirstAdded(SeasonOf(h))
    \/ SeasonOf(g) = SeasonOf(h) /\ g[3] < h[3]

\* every added group was yielded, and nothing else
YieldsEveryGroupOnce ==
    /\ Len(yielded) = Len(calls)
    /\ \A i \in 1..Len(calls) : \E j \in 1..Len(yielded) : yielded[j] = GroupOf(calls[i])

\* the groups were yielded in the order in which they are due
YieldsInOrder ==
    \A i, j \in 1..Len(yielded) : i < j => DueBefore(yielded[i], yielded[j])

\* C40: for calls of add_single_formats with pairwise distinct (season
\* number, season id, sequence number) keys, the iteration yields every added
\* group exactly once and then ends, in ascending season number (seasons of
\* one number in the order of their first addition) and within a season in
\* ascending sequence number
C40_IterationYieldsAllInOrder ==
    IterationEnded => YieldsEveryGroupOnce /\ YieldsInOrder

\* what the iteration does keep: every group is yielded exactly once, and
\* while the seasons fit one node of the map they come in the order due
EveryGroupOnce == IterationEnded => YieldsEveryGroupOnce
InOrderWithinOneNode ==
    IterationEnded /\ collection.edges = <<>> => YieldsEveryGroupOnce /\ YieldsInOrder

TypeOK ==
    /\ pc \in {"idle", "recv", "join", "done"}
    /\ data_pos \in 0..total_segments
    /\ count \in 0..total_segments

====
